---- MODULE Spec2Model ----
(***************************************************************************)
(* A model of the waiig interpreter: the object model and the chained      *)
(* Environment (object/object.go), the recursive evaluator                 *)
(* (evaluator/evaluator.go, evaluator/builtins.go) and the read-eval loop  *)
(* that drives it (repl/repl.go).                                          *)
(***************************************************************************)
EXTENDS Integers, Sequences, FiniteSets, TLC

VARIABLES
    frames,   \* the heap of Environment frames: frames[i] = [outer, store]
    last,     \* the last Environment operation performed and what it returned
    refs,     \* number of objects allocated so far (the next free address)
    lines,    \* number of lines the read-eval loop has evaluated
    program,  \* the Program evaluated last
    before,   \* the heap of frames as it was when that evaluation started
    evaluated, \* what Eval returned for it
    trace,    \* the events of that evaluation, in order
    backing,  \* the heap of backing arrays of the slices: backing[p] = cells
    backing0, \* that heap as it was when the evaluation started
    source,   \* the tokens of the text handed to the Parser last
    parsed,   \* the Program ParseProgram returned for it
    errors,   \* the diagnostics of that Parser (p.Errors())
    steps     \* the calls of expectPeek and the returns of their callers

vars == <<frames, last, refs, lines, program, before, evaluated, trace,
          backing, backing0, source, parsed, errors, steps>>

(***************************************************************************)
(* Bounds                                                                  *)
(***************************************************************************)
MaxEnvs == 3
MaxLines == 1
MaxDepth == 13

(***************************************************************************)
(* object/object.go: runtime objects                                       *)
(***************************************************************************)
INTEGER_OBJ == "INTEGER"
STRING_OBJ == "STRING"
BOOLEAN_OBJ == "BOOLEAN"
NULL_OBJ == "NULL"
RETURN_VALUE_OBJ == "RETURN_VALUE"
ERROR_OBJ == "ERROR"
FUNCTION_OBJ == "FUNCTION"
BUILTIN_OBJ == "BUILTIN"
ARRAY_OBJ == "ARRAY"
RANGE_OBJ == "RANGE"
HASH_OBJ == "HASH"

\* a nil object.Object (the absent result)
Nil == [Type |-> "nil"]

\* the outcome of a run-time panic of the host (nil dereference, index out of
\* range, stack exhaustion); it is not an Object
Panic == [Type |-> "panic"]

\* Every allocated object carries id, which stands for its address; the shared
\* package-level objects carry ref, their name. Two objects are the same
\* object exactly when they have the same id (ref).

\* &object.Integer{Value: v}
Integer(id, v) == [Type |-> INTEGER_OBJ, Value |-> v, id |-> id]

\* &object.String{Value: s}; a Go string is a sequence of bytes, here the
\* sequence of their values 0..255
String(id, s) == [Type |-> STRING_OBJ, Str |-> s, id |-> id]

\* &object.ReturnValue{Value: v}
ReturnValue(id, v) == [Type |-> RETURN_VALUE_OBJ, Object |-> v, id |-> id]

\* &object.Error{Message: m}
Error(id, m) == [Type |-> ERROR_OBJ, Message |-> m, id |-> id]

\* &object.Function{Parameters: params, Body: body, Env: env}
Function(id, params, body, env) ==
    [Type |-> FUNCTION_OBJ, Parameters |-> params, Body |-> body, Env |-> env, id |-> id]

\* a Go slice: the cells off+1 .. off+len of the backing array ptr, which
\* may grow in place up to cap cells
Slice(ptr, off, len, cap) == [ptr |-> ptr, off |-> off, len |-> len, cap |-> cap]

\* the elements a slice holds, read from the heap h of backing arrays
Elems(h, s) == SubSeq(h[s.ptr], s.off + 1, s.off + s.len)

\* &object.Array{Elements: elements}, elements being a slice
Array(id, elements) == [Type |-> ARRAY_OBJ, Elements |-> elements, id |-> id]

\* &object.Range{From: from, ToExclusive: toExclusive}
Range(id, from, toExclusive) ==
    [Type |-> RANGE_OBJ, From |-> from, ToExclusive |-> toExclusive, id |-> id]

\* &object.Hash{Pairs: pairs}, pairs being a function from HashKeys to HashPairs
Hash(id, pairs) == [Type |-> HASH_OBJ, Pairs |-> pairs, id |-> id]

HashPair(key, value) == [Key |-> key, Value |-> value]

\* the entries of the builtins table; each is one shared object
Builtin(name) == [Type |-> BUILTIN_OBJ, Name |-> name, ref |-> name]

\* the three shared instances of evaluator.go
NULL == [Type |-> NULL_OBJ, ref |-> "NULL"]
TRUE_ == [Type |-> BOOLEAN_OBJ, Bool |-> TRUE, ref |-> "TRUE"]
FALSE_ == [Type |-> BOOLEAN_OBJ, Bool |-> FALSE, ref |-> "FALSE"]

\* Go's == on two object.Object values: the same pointer, or both nil
SameObject(a, b) ==
    IF a.Type = "nil" \/ b.Type = "nil"
    THEN a.Type = b.Type
    ELSE /\ a.Type = b.Type
         /\ IF a.Type \in {BOOLEAN_OBJ, NULL_OBJ, BUILTIN_OBJ}
            THEN a.ref = b.ref
            ELSE a.id = b.id

(***************************************************************************)
(* object/object.go: Environment                                           *)
(***************************************************************************)
EmptyStore == [n \in {} |-> Nil]

NewEnvironment(h) ==
    [heap |-> Append(h, [outer |-> 0, store |-> EmptyStore]), env |-> Len(h) + 1]

NewEnclosedEnvironment(h, outer) ==
    LET r == NewEnvironment(h)
    IN  [heap |-> [r.heap EXCEPT ![r.env].outer = outer], env |-> r.env]

\* a write that goes through to the nearest frame that already binds name
RECURSIVE SetWriteThrough(_, _, _, _)
SetWriteThrough(h, e, name, value) ==
    IF name \notin DOMAIN h[e].store /\ h[e].outer # 0
    THEN SetWriteThrough(h, h[e].outer, name, value)
    ELSE [heap |-> [h EXCEPT ![e].store = (name :> value) @@ @], value |-> value]

Set(h, e, name, value) ==
    [heap |-> [h EXCEPT ![e].store = (name :> value) @@ @], value |-> value]

RECURSIVE Get(_, _, _)
Get(h, e, name) ==
    IF name \in DOMAIN h[e].store
    THEN [value |-> h[e].store[name], ok |-> TRUE]
    ELSE IF h[e].outer # 0
         THEN Get(h, h[e].outer, name)
         ELSE [value |-> Nil, ok |-> FALSE]

(***************************************************************************)
(* ast: the nodes the evaluator dispatches on (fields as evaluator.go      *)
(* reads them)                                                             *)
(***************************************************************************)
\* a nil ast.Node (an absent child)
NoNode == [k |-> "nil"]

\* no text was handed to a Parser yet
NoSource == [form |-> "", words |-> <<>>, first |-> 0]

Program(stmts) == [k |-> "Program", Statements |-> stmts]
LetStatement(name, value) == [k |-> "LetStatement", Name |-> name, Val |-> value]
ReturnStatement(value) == [k |-> "ReturnStatement", ReturnValue |-> value]
ExpressionStatement(exp) == [k |-> "ExpressionStatement", Expression |-> exp]
BlockStatement(stmts) == [k |-> "BlockStatement", Statements |-> stmts]
Identifier(name) == [k |-> "Identifier", Name |-> name]
IntegerLiteral(v) == [k |-> "IntegerLiteral", Value |-> v]
StringLiteral(s) == [k |-> "StringLiteral", Str |-> s]
Boolean(b) == [k |-> "Boolean", Bool |-> b]
PrefixExpression(op, right) == [k |-> "PrefixExpression", Operator |-> op, Right |-> right]
InfixExpression(left, op, right) ==
    [k |-> "InfixExpression", Left |-> left, Operator |-> op, Right |-> right]
\* alt is NoNode when there is no else block
IfExpression(cond, cons, alt) ==
    [k |-> "IfExpression", Condition |-> cond, Consequence |-> cons, Alternative |-> alt]
\* params is the sequence of the parameters' names
FunctionLiteral(params, body) ==
    [k |-> "FunctionLiteral", Parameters |-> params, Body |-> body]
CallExpression(function, args) ==
    [k |-> "CallExpression", Function |-> function, Arguments |-> args]
ArrayLiteral(elements) == [k |-> "ArrayLiteral", Elements |-> elements]
IndexExpression(left, index) == [k |-> "IndexExpression", Left |-> left, Index |-> index]
RangeExpression(left, right) == [k |-> "RangeExpression", Left |-> left, Right |-> right]
\* Pairs is a Go map from key expressions to value expressions; pairs is the
\* sequence of its entries [Key, Val] in the order of the source text
HashLiteral(pairs) == [k |-> "HashLiteral", Pairs |-> pairs]

(***************************************************************************)
(* evaluator: the state an evaluation threads through its calls            *)
(*   frames  the heap of Environment frames                                *)
(*   refs    the number of objects allocated                               *)
(*   depth   the nesting depth of the running Eval calls                   *)
(*   tr      the events so far                                             *)
(*   backing the heap of backing arrays                                    *)
(*   orders  the orders in which the coming range loops over a map visit   *)
(*           its entries                                                   *)
(* Every evaluation step returns [val, st]: the Object (or Nil, or Panic)  *)
(* and the state it leaves.                                                *)
(***************************************************************************)
R(v, st) == [val |-> v, st |-> st]

\* an event of the evaluation: e is its kind ("eval": Eval is entered on node
\* in env; "ret": that call returns val; "set": env.Set(node.Name, val);
\* "apply": applyFunction(val, args); "builtin": the native function of the
\* Builtin val runs on args; "print": println writes; "store": the backing
\* array env now holds the cells args; "panic": the host faults), d the depth
\* of the Eval call it belongs to
Emit(st, e, env, node, val, args) ==
    [st EXCEPT !.tr = Append(@, [e |-> e, d |-> st.depth, env |-> env,
                                 node |-> node, val |-> val, args |-> args])]

\* a run-time panic of the host: the evaluation is abandoned
Fault(st) == R(Panic, Emit(st, "panic", 0, NoNode, Nil, <<>>))

IsPanic(v) == v.Type = "panic"

IsNil(v) == v.Type = "nil"

isError(obj) == IF ~IsNil(obj) THEN obj.Type = ERROR_OBJ ELSE FALSE

newError(st, message) == R(Error(st.refs, message), [st EXCEPT !.refs = @ + 1])

\* a copy is handed out instead of the shared instance
nativeBooleanToObjectCopy(input) ==
    [Type |-> BOOLEAN_OBJ, Bool |-> input, ref |-> "copy"]

nativeBooleanToObject(input) == IF input THEN TRUE_ ELSE FALSE_

\* Go's integer division truncates toward zero
Quot(a, b) ==
    LET abs(x) == IF x < 0 THEN -x ELSE x
        q == abs(a) \div abs(b)
    IN  IF (a < 0) = (b < 0) THEN q ELSE -q

NewInteger(st, v) == R(Integer(st.refs, v), [st EXCEPT !.refs = @ + 1])

NewString(st, s) == R(String(st.refs, s), [st EXCEPT !.refs = @ + 1])

\* a new backing array holding cells, and a slice of its first len cells
MakeSlice(st, cells, len) ==
    LET p == Len(st.backing) + 1
    IN  [slice |-> Slice(p, 0, len, Len(cells)),
         st |-> Emit([st EXCEPT !.backing = Append(@, cells)],
                     "store", p, NoNode, Nil, cells)]

\* &object.Array{Elements: s}
NewArray(st, s) == R(Array(st.refs, s), [st EXCEPT !.refs = @ + 1])

\* the capacity append leaves a slice of n elements with when it grew from
\* the nil slice one element at a time: doubling, 1 2 4 8 ...
RECURSIVE AppendCap(_, _)
AppendCap(n, cap) == IF n <= cap THEN cap ELSE AppendCap(n, IF cap = 0 THEN 1 ELSE 2 * cap)

\* cells 1..n hold objects, the cells up to the capacity are not yet in use
Padded(objects, cap) == objects \o [i \in 1..(cap - Len(objects)) |-> Nil]

evalIntegerInfixExpression(operator, left, right, st) ==
    LET leftVal == left.Value
        rightVal == right.Value
    IN  CASE operator = "+" -> NewInteger(st, leftVal + rightVal)
          [] operator = "-" -> NewInteger(st, leftVal - rightVal)
          [] operator = "*" -> NewInteger(st, leftVal * rightVal)
          [] operator = "/" -> IF rightVal = 0 THEN Fault(st)
                               ELSE NewInteger(st, Quot(leftVal, rightVal))
          [] operator = ">" -> R(nativeBooleanToObject(leftVal > rightVal), st)
          [] operator = "<" -> R(nativeBooleanToObject(leftVal < rightVal), st)
          [] operator = "==" -> R(nativeBooleanToObject(leftVal = rightVal), st)
          [] operator = "!=" -> R(nativeBooleanToObject(leftVal # rightVal), st)
          [] OTHER -> newError(st, "unknown operator: " \o left.Type \o " "
                                   \o operator \o " " \o right.Type)

evalStringInfixExpression(operator, left, right, st) ==
    LET leftVal == left.Str
        rightVal == right.Str
    IN  CASE operator = "+" -> NewString(st, leftVal \o rightVal)
          [] operator = "==" -> R(nativeBooleanToObject(leftVal = rightVal), st)
          [] operator = "!=" -> R(nativeBooleanToObject(leftVal # rightVal), st)
          [] OTHER -> newError(st, "unknown operator: " \o left.Type \o " "
                                   \o operator \o " " \o right.Type)

\* the == and != cases come after the type-mismatch case
evalInfixExpressionTypesFirst(operator, left, right, st) ==
    IF IsNil(left) \/ IsNil(right) THEN Fault(st)
    ELSE IF left.Type = INTEGER_OBJ /\ right.Type = INTEGER_OBJ
    THEN evalIntegerInfixExpression(operator, left, right, st)
    ELSE IF left.Type = STRING_OBJ /\ right.Type = STRING_OBJ
    THEN evalStringInfixExpression(operator, left, right, st)
    ELSE IF left.Type # right.Type
    THEN newError(st, "type mismatch: " \o left.Type \o " " \o operator
                      \o " " \o right.Type)
    ELSE IF operator = "=="
    THEN R(nativeBooleanToObject(SameObject(left, right)), st)
    ELSE IF operator = "!="
    THEN R(nativeBooleanToObject(~SameObject(left, right)), st)
    ELSE newError(st, "unknown operator: " \o left.Type \o " " \o operator
                      \o " " \o right.Type)

\* left.Type() and right.Type() fault on a nil operand; the cases of the
\* switch are tried in order, so right.Type() is reached only when the left
\* operand is an Integer or a String or the operator is neither == nor !=
evalInfixExpression(operator, left, right, st) ==
    IF IsNil(left) THEN Fault(st)
    ELSE IF left.Type = INTEGER_OBJ /\ IsNil(right) THEN Fault(st)
    ELSE IF left.Type = INTEGER_OBJ /\ right.Type = INTEGER_OBJ
    THEN evalIntegerInfixExpression(operator, left, right, st)
    ELSE IF left.Type = STRING_OBJ /\ IsNil(right) THEN Fault(st)
    ELSE IF left.Type = STRING_OBJ /\ right.Type = STRING_OBJ
    THEN evalStringInfixExpression(operator, left, right, st)
    ELSE IF operator = "=="
    THEN R(nativeBooleanToObject(SameObject(left, right)), st)
    ELSE IF operator = "!="
    THEN R(nativeBooleanToObject(~SameObject(left, right)), st)
    ELSE IF IsNil(right) THEN Fault(st)
    ELSE IF left.Type # right.Type
    THEN newError(st, "type mismatch: " \o left.Type \o " " \o operator
                      \o " " \o right.Type)
    ELSE newError(st, "unknown operator: " \o left.Type \o " " \o operator
                      \o " " \o right.Type)

evalMinusPrefixOperatorExpression(operand, st) ==
    IF IsNil(operand) THEN Fault(st)
    ELSE IF operand.Type # INTEGER_OBJ
    THEN newError(st, "unknown operator: -" \o operand.Type)
    ELSE NewInteger(st, -operand.Value)

evalBangOperatorExpression(operand) ==
    IF SameObject(operand, TRUE_) THEN FALSE_
    ELSE IF SameObject(operand, FALSE_) THEN TRUE_
    ELSE IF SameObject(operand, NULL) THEN TRUE_
    ELSE FALSE_

evalPrefixExpression(operator, operand, st) ==
    CASE operator = "!" -> R(evalBangOperatorExpression(operand), st)
      [] operator = "-" -> evalMinusPrefixOperatorExpression(operand, st)
      [] OTHER -> IF IsNil(operand) THEN Fault(st)
                  ELSE newError(st, "unknown operator " \o operator \o operand.Type)

\* 0 and "" are taken for false as well
isTruthyCLike(obj) ==
    IF SameObject(obj, TRUE_) THEN TRUE
    ELSE IF SameObject(obj, FALSE_) THEN FALSE
    ELSE IF SameObject(obj, NULL) THEN FALSE
    ELSE IF IsNil(obj) THEN TRUE
    ELSE IF obj.Type = INTEGER_OBJ THEN obj.Value # 0
    ELSE IF obj.Type = STRING_OBJ THEN obj.Str # <<>>
    ELSE TRUE

isTruthy(obj) ==
    IF SameObject(obj, TRUE_) THEN TRUE
    ELSE IF SameObject(obj, FALSE_) THEN FALSE
    ELSE IF SameObject(obj, NULL) THEN FALSE
    ELSE TRUE

(***************************************************************************)
(* object/object.go: HashKey. A uint64 is the sequence of its 8 bytes, the  *)
(* lowest first                                                            *)
(***************************************************************************)
\* the 8 bytes of n, 0 <= n
RECURSIVE BytesOf(_, _)
BytesOf(n, count) == IF count = 0 THEN <<>> ELSE <<n % 256>> \o BytesOf(n \div 256, count - 1)

\* uint64(v) of an int64 v: v itself, or 2^64 + v when v is negative, whose
\* bytes are the complements of the bytes of -v - 1
Uint64(v) ==
    IF v >= 0 THEN BytesOf(v, 8)
    ELSE [i \in 1..8 |-> 255 - BytesOf(-v - 1, 8)[i]]

\* a ^ b on bytes
RECURSIVE Xor(_, _)
Xor(a, b) ==
    IF a = 0 /\ b = 0 THEN 0
    ELSE ((a + b) % 2) + 2 * Xor(a \div 2, b \div 2)

\* byte k and the carry of a * b, given the carry of byte k - 1
MulStep(a, b, k, carry) ==
    LET RECURSIVE Sum(_)
        Sum(i) == IF i > k THEN 0 ELSE a[i] * b[k + 1 - i] + Sum(i + 1)
    IN  Sum(1) + carry

\* a * b of two uint64, modulo 2^64
RECURSIVE MulFrom(_, _, _, _)
MulFrom(a, b, k, carry) ==
    IF k > 8 THEN <<>>
    ELSE LET t == MulStep(a, b, k, carry)
         IN  <<t % 256>> \o MulFrom(a, b, k + 1, t \div 256)

Mul64(a, b) == MulFrom(a, b, 1, 0)

\* hash/fnv New64a: offset basis 0xcbf29ce484222325, prime 0x100000001b3
FnvOffset64 == <<37, 35, 34, 132, 228, 156, 242, 203>>
FnvPrime64 == <<179, 1, 0, 0, 0, 1, 0, 0>>

\* h.Write(bytes); h.Sum64(): for each byte, hash ^= byte; hash *= prime
RECURSIVE Fnv64a(_, _)
Fnv64a(hash, bytes) ==
    IF bytes = <<>> THEN hash
    ELSE Fnv64a(Mul64([hash EXCEPT ![1] = Xor(@, Head(bytes))], FnvPrime64), Tail(bytes))

\* the object implements Hashable
IsHashable(obj) ==
    IF IsNil(obj) THEN FALSE ELSE obj.Type \in {INTEGER_OBJ, BOOLEAN_OBJ, STRING_OBJ}

\* the Boolean of the type tag alone: the tag is left out of the key
HashKeyUntyped(obj) ==
    [Type |-> "",
     Value |-> CASE obj.Type = INTEGER_OBJ -> Uint64(obj.Value)
                 [] obj.Type = BOOLEAN_OBJ -> Uint64(IF obj.Bool THEN 1 ELSE 0)
                 [] obj.Type = STRING_OBJ -> Fnv64a(FnvOffset64, obj.Str)]

\* obj.HashKey() of a Hashable
HashKey(obj) ==
    [Type |-> obj.Type,
     Value |-> CASE obj.Type = INTEGER_OBJ -> Uint64(obj.Value)
                 [] obj.Type = BOOLEAN_OBJ -> Uint64(IF obj.Bool THEN 1 ELSE 0)
                 [] obj.Type = STRING_OBJ -> Fnv64a(FnvOffset64, obj.Str)]

unwrapReturnValue(obj) ==
    IF ~IsNil(obj) /\ obj.Type = RETURN_VALUE_OBJ THEN obj.Object ELSE obj

(***************************************************************************)
(* evaluator/builtins.go (the messages are written without the backquotes  *)
(* of the source)                                                          *)
(***************************************************************************)
BuiltinNames == {"len", "push", "println"}

builtinLen(args, st) ==
    IF Len(args) # 1
    THEN newError(st, "wrong number of arguments. got=" \o ToString(Len(args))
                      \o ", want=1")
    ELSE IF IsNil(args[1]) THEN Fault(st)
    ELSE IF args[1].Type = STRING_OBJ THEN NewInteger(st, Len(args[1].Str))
    ELSE IF args[1].Type = ARRAY_OBJ THEN NewInteger(st, args[1].Elements.len)
    ELSE newError(st, "argument to len not supported, got " \o args[1].Type)

\* Go's append(s, v): v is written into the cell after the slice when the
\* backing array has room for it, and into a larger copy otherwise
GoAppend(st, s, v) ==
    IF s.len < s.cap
    THEN LET cells == [st.backing[s.ptr] EXCEPT ![s.off + s.len + 1] = v]
         IN  [slice |-> Slice(s.ptr, s.off, s.len + 1, s.cap),
              st |-> Emit([st EXCEPT !.backing[s.ptr] = cells],
                          "store", s.ptr, NoNode, Nil, cells)]
    ELSE MakeSlice(st, Padded(Append(Elems(st.backing, s), v),
                              AppendCap(s.len + 1, s.cap)), s.len + 1)

\* the new Array is append(arr.Elements, args[1])
builtinPushAppend(args, st) ==
    IF Len(args) # 2
    THEN newError(st, "wrong number of arguments. got=" \o ToString(Len(args))
                      \o ", want=2")
    ELSE IF IsNil(args[1]) THEN Fault(st)
    ELSE IF args[1].Type # ARRAY_OBJ
    THEN newError(st, "argument to push must be ARRAY, got " \o args[1].Type)
    ELSE LET m == GoAppend(st, args[1].Elements, args[2])
         IN  NewArray(m.st, m.slice)

\* newElements is a new backing array of length+1 cells: the copy of the
\* elements followed by args[1]
builtinPush(args, st) ==
    IF Len(args) # 2
    THEN newError(st, "wrong number of arguments. got=" \o ToString(Len(args))
                      \o ", want=2")
    ELSE IF IsNil(args[1]) THEN Fault(st)
    ELSE IF args[1].Type # ARRAY_OBJ
    THEN newError(st, "argument to push must be ARRAY, got " \o args[1].Type)
    ELSE LET length == args[1].Elements.len
             m == MakeSlice(st, Append(Elems(st.backing, args[1].Elements), args[2]),
                            length + 1)
         IN  NewArray(m.st, m.slice)

\* the text is written to the standard output; the call returns nil
builtinPrintln(args, st) ==
    IF Len(args) < 1
    THEN newError(st, "wrong number of arguments. got=" \o ToString(Len(args))
                      \o ", want at least 1")
    ELSE IF IsNil(args[1]) THEN Fault(st)
    ELSE IF args[1].Type # STRING_OBJ
    THEN newError(st, "first argument to println must be STRING, got "
                      \o args[1].Type)
    ELSE R(Nil, Emit(st, "print", 0, NoNode, args[1], Tail(args)))

builtinFn(name, args, st) ==
    CASE name = "len" -> builtinLen(args, st)
      [] name = "push" -> builtinPush(args, st)
      [] name = "println" -> builtinPrintln(args, st)

(***************************************************************************)
(* evaluator/evaluator.go: the recursive evaluation                        *)
(***************************************************************************)
RECURSIVE Eval(_, _, _)

evalIdentifier(node, env, st) ==
    LET g == Get(st.frames, env, node.Name)
    IN  IF g.ok THEN R(g.value, st)
        ELSE IF node.Name \in BuiltinNames THEN R(Builtin(node.Name), st)
        ELSE newError(st, "identifier not found: " \o node.Name)

\* the loop goes on after a statement that yielded an Error
RECURSIVE evalProgramFromPastError(_, _, _, _, _)
evalProgramFromPastError(stmts, i, env, st, result) ==
    IF i > Len(stmts) THEN R(result, st)
    ELSE LET r == Eval(stmts[i], env, st)
         IN  IF IsPanic(r.val) THEN r
             ELSE IF ~IsNil(r.val) /\ r.val.Type = RETURN_VALUE_OBJ
             THEN R(r.val.Object, r.st)
             ELSE evalProgramFromPastError(stmts, i + 1, env, r.st, r.val)

\* the loop of evalProgram from statement i on; result is the last result
RECURSIVE evalProgramFrom(_, _, _, _, _)
evalProgramFrom(stmts, i, env, st, result) ==
    IF i > Len(stmts) THEN R(result, st)
    ELSE LET r == Eval(stmts[i], env, st)
         IN  IF IsPanic(r.val) THEN r
             ELSE IF ~IsNil(r.val) /\ r.val.Type = RETURN_VALUE_OBJ
             THEN R(r.val.Object, r.st)
             ELSE IF ~IsNil(r.val) /\ r.val.Type = ERROR_OBJ
             THEN r
             ELSE evalProgramFrom(stmts, i + 1, env, r.st, r.val)

evalProgram(program_, env, st) ==
    evalProgramFrom(program_.Statements, 1, env, st, Nil)

\* the loop of a block that hands on neither a ReturnValue nor an Error
RECURSIVE evalBlockStatementNoStop(_, _, _, _, _)
evalBlockStatementNoStop(stmts, i, env, st, result) ==
    IF i > Len(stmts) THEN R(result, st)
    ELSE LET r == Eval(stmts[i], env, st)
         IN  IF IsPanic(r.val) THEN r
             ELSE evalBlockStatementNoStop(stmts, i + 1, env, r.st, r.val)

\* the loop of evalBlockStatement from statement i on
RECURSIVE evalBlockStatementFrom(_, _, _, _, _)
evalBlockStatementFrom(stmts, i, env, st, result) ==
    IF i > Len(stmts) THEN R(result, st)
    ELSE LET r == Eval(stmts[i], env, st)
         IN  IF IsPanic(r.val) THEN r
             ELSE IF ~IsNil(r.val)
                     /\ (r.val.Type = RETURN_VALUE_OBJ \/ r.val.Type = ERROR_OBJ)
             THEN r
             ELSE evalBlockStatementFrom(stmts, i + 1, env, r.st, r.val)

evalBlockStatement(block, env, st) ==
    evalBlockStatementFrom(block.Statements, 1, env, st, Nil)

\* the loop of evalExpressions from expression i on; the result has the
\* evaluated objects in objects (val is Panic when the host faulted)
RECURSIVE evalExpressionsFrom(_, _, _, _, _)
evalExpressionsFrom(expressions, i, env, st, objects) ==
    IF i > Len(expressions) THEN [val |-> Nil, objects |-> objects, st |-> st]
    ELSE LET r == Eval(expressions[i], env, st)
         IN  IF IsPanic(r.val) THEN [val |-> Panic, objects |-> <<>>, st |-> r.st]
             ELSE IF isError(r.val)
             THEN [val |-> Nil, objects |-> <<r.val>>, st |-> r.st]
             ELSE evalExpressionsFrom(expressions, i + 1, env, r.st,
                                      Append(objects, r.val))

evalExpressions(expressions, env, st) ==
    evalExpressionsFrom(expressions, 1, env, st, <<>>)

\* both branches are evaluated, the value of the selected one is returned
evalIfExpressionEager(node, env, st) ==
    LET c == Eval(node.Condition, env, st)
    IN  IF IsPanic(c.val) THEN c
        ELSE IF isError(c.val) THEN c
        ELSE LET a == Eval(node.Consequence, env, c.st)
             IN  IF IsPanic(a.val) THEN a
                 ELSE IF node.Alternative = NoNode
                 THEN IF isTruthy(c.val) THEN a ELSE R(NULL, a.st)
                 ELSE LET b == Eval(node.Alternative, env, a.st)
                      IN  IF IsPanic(b.val) THEN b
                          ELSE IF isTruthy(c.val) THEN R(a.val, b.st) ELSE b

evalIfExpression(node, env, st) ==
    LET c == Eval(node.Condition, env, st)
    IN  IF IsPanic(c.val) THEN c
        ELSE IF isError(c.val) THEN c
        ELSE IF isTruthy(c.val) THEN Eval(node.Consequence, env, c.st)
        ELSE IF node.Alternative # NoNode THEN Eval(node.Alternative, env, c.st)
        ELSE R(NULL, c.st)

\* Elements becomes the slice that evalExpressions built with append
evalArrayLiteral(node, env, st) ==
    LET r == evalExpressions(node.Elements, env, st)
    IN  IF IsPanic(r.val) THEN R(Panic, r.st)
        ELSE IF Len(r.objects) = 1 /\ isError(r.objects[1]) THEN R(r.objects[1], r.st)
        ELSE LET m == MakeSlice(r.st, Padded(r.objects, AppendCap(Len(r.objects), 0)),
                                Len(r.objects))
             IN  NewArray(m.st, m.slice)

\* string(b) of a byte b: the UTF-8 encoding of the code point b
ByteToString(b) == IF b < 128 THEN <<b>> ELSE <<192 + (b \div 64), 128 + (b % 64)>>

\* case *object.Array of evalIndexExpression; indexObj.Type() faults on nil
indexArray(obj, indexObj, st) ==
    LET length == obj.Elements.len
    IN  IF IsNil(indexObj) THEN Fault(st)
        ELSE IF indexObj.Type = INTEGER_OBJ
        THEN IF indexObj.Value >= length \/ indexObj.Value < 0
             THEN newError(st, "index out of bounds, index=" \o ToString(indexObj.Value)
                               \o " len=" \o ToString(length))
             ELSE R(Elems(st.backing, obj.Elements)[indexObj.Value + 1], st)
        ELSE IF indexObj.Type = RANGE_OBJ
        THEN IF \/ indexObj.From > length
                \/ indexObj.ToExclusive > length
                \/ indexObj.From < 0
                \/ indexObj.ToExclusive < 0
             THEN newError(st, "range index out of bounds, index="
                               \o ToString(indexObj.From) \o ":"
                               \o ToString(indexObj.ToExclusive)
                               \o " len=" \o ToString(length))
             ELSE IF indexObj.From > indexObj.ToExclusive THEN Fault(st)
             ELSE NewArray(st, Slice(obj.Elements.ptr,
                                     obj.Elements.off + indexObj.From,
                                     indexObj.ToExclusive - indexObj.From,
                                     obj.Elements.cap - indexObj.From))
        ELSE newError(st, "unknown index type: " \o indexObj.Type)

\* case *object.String of evalIndexExpression
indexString(obj, indexObj, st) ==
    LET length == Len(obj.Str)
    IN  IF IsNil(indexObj) THEN Fault(st)
        ELSE IF indexObj.Type = INTEGER_OBJ
        THEN IF indexObj.Value >= length \/ indexObj.Value < 0
             THEN newError(st, "index out of bounds, index=" \o ToString(indexObj.Value)
                               \o " len=" \o ToString(length))
             ELSE NewString(st, ByteToString(obj.Str[indexObj.Value + 1]))
        ELSE IF indexObj.Type = RANGE_OBJ
        THEN IF \/ indexObj.From > length
                \/ indexObj.ToExclusive > length
                \/ indexObj.From < 0
                \/ indexObj.ToExclusive < 0
             THEN newError(st, "range index out of bounds, index="
                               \o ToString(indexObj.From) \o ":"
                               \o ToString(indexObj.ToExclusive)
                               \o " len=" \o ToString(length))
             ELSE IF indexObj.From > indexObj.ToExclusive THEN Fault(st)
             ELSE NewString(st, SubSeq(obj.Str, indexObj.From + 1, indexObj.ToExclusive))
        ELSE newError(st, "unknown index type: " \o indexObj.Type)

\* case *object.Hash of evalIndexExpression
indexHash(obj, indexObj, st) ==
    IF IsNil(indexObj) THEN Fault(st)
    ELSE IF ~IsHashable(indexObj)
    THEN newError(st, "unusable as hash key: " \o indexObj.Type)
    ELSE IF HashKey(indexObj) \notin DOMAIN obj.Pairs THEN R(NULL, st)
    ELSE R(obj.Pairs[HashKey(indexObj)].Value, st)

\* left.Type() of the default case faults when left is nil
evalIndexExpression(node, env, st) ==
    LET left == Eval(node.Left, env, st)
    IN  IF IsPanic(left.val) THEN left
        ELSE IF isError(left.val) THEN left
        ELSE LET indexObj == Eval(node.Index, env, left.st)
             IN  IF IsPanic(indexObj.val) THEN indexObj
                 ELSE IF isError(indexObj.val) THEN indexObj
                 ELSE IF IsNil(left.val) THEN Fault(indexObj.st)
                 ELSE IF left.val.Type = ARRAY_OBJ
                 THEN indexArray(left.val, indexObj.val, indexObj.st)
                 ELSE IF left.val.Type = STRING_OBJ
                 THEN indexString(left.val, indexObj.val, indexObj.st)
                 ELSE IF left.val.Type = HASH_OBJ
                 THEN indexHash(left.val, indexObj.val, indexObj.st)
                 ELSE newError(indexObj.st, "unknown operator: index of " \o left.val.Type)

\* a Range is made whatever the two Integers are
evalRangeExpressionUnchecked(node, env, st) ==
    LET left == Eval(node.Left, env, st)
    IN  IF IsPanic(left.val) THEN left
        ELSE IF isError(left.val) THEN left
        ELSE LET right == Eval(node.Right, env, left.st)
             IN  IF IsPanic(right.val) THEN right
                 ELSE IF isError(right.val) THEN right
                 ELSE IF IsNil(left.val) THEN Fault(right.st)
                 ELSE IF IsNil(right.val) THEN Fault(right.st)
                 ELSE IF left.val.Type # INTEGER_OBJ \/ right.val.Type # INTEGER_OBJ
                 THEN newError(right.st, "unknown operator: " \o left.val.Type
                                         \o " : " \o right.val.Type)
                 ELSE R(Range(right.st.refs, left.val.Value, right.val.Value),
                        [right.st EXCEPT !.refs = @ + 1])

\* left.Type() and right.Type() fault on nil: left.(*object.Integer) fails
\* for a nil left, and a nil right fails right.(*object.Integer)
evalRangeExpression(node, env, st) ==
    LET left == Eval(node.Left, env, st)
    IN  IF IsPanic(left.val) THEN left
        ELSE IF isError(left.val) THEN left
        ELSE LET right == Eval(node.Right, env, left.st)
             IN  IF IsPanic(right.val) THEN right
                 ELSE IF isError(right.val) THEN right
                 ELSE IF IsNil(left.val) THEN Fault(right.st)
                 ELSE IF IsNil(right.val) THEN Fault(right.st)
                 ELSE IF left.val.Type # INTEGER_OBJ \/ right.val.Type # INTEGER_OBJ
                 THEN newError(right.st, "unknown operator: " \o left.val.Type
                                         \o " : " \o right.val.Type)
                 ELSE IF left.val.Value > right.val.Value
                 THEN newError(right.st,
                          "range from must be greater than or equal to > toExclusive, from="
                          \o ToString(left.val.Value) \o " toExclusive="
                          \o ToString(right.val.Value))
                 ELSE R(Range(right.st.refs, left.val.Value, right.val.Value),
                        [right.st EXCEPT !.refs = @ + 1])

\* the order in which a range loop visits a map of n entries: any order; the
\* next one of st.orders is taken, restricted to 1..n
VisitOrder(st, n) ==
    IF st.orders = <<>> THEN [i \in 1..n |-> i]
    ELSE SelectSeq(Head(st.orders), LAMBDA i : i <= n)

\* the loop of evalHashExpression from the i-th visited pair on;
\* keyObj.Type() faults when the key evaluated to nil
RECURSIVE evalHashPairs(_, _, _, _, _, _)
evalHashPairs(node, order, i, env, st, pairs) ==
    IF i > Len(order)
    THEN R(Hash(st.refs, pairs), [st EXCEPT !.refs = @ + 1])
    ELSE LET keyObj == Eval(node.Pairs[order[i]].Key, env, st)
         IN  IF IsPanic(keyObj.val) THEN keyObj
             ELSE IF isError(keyObj.val) THEN keyObj
             ELSE IF IsNil(keyObj.val) THEN Fault(keyObj.st)
             ELSE IF ~IsHashable(keyObj.val)
             THEN newError(keyObj.st, "unusable as hash key: " \o keyObj.val.Type)
             ELSE LET valueObj == Eval(node.Pairs[order[i]].Val, env, keyObj.st)
                  IN  IF IsPanic(valueObj.val) THEN valueObj
                      ELSE IF isError(valueObj.val) THEN valueObj
                      ELSE evalHashPairs(node, order, i + 1, env, valueObj.st,
                              (HashKey(keyObj.val) :> HashPair(keyObj.val, valueObj.val))
                                 @@ pairs)

evalHashExpression(node, env, st) ==
    evalHashPairs(node, VisitOrder(st, Len(node.Pairs)), 1, env,
                  [st EXCEPT !.orders = IF @ = <<>> THEN @ ELSE Tail(@)],
                  [x \in {} |-> Nil])

\* the loop of extendFunctionEnv from parameter paramIdx on: args[paramIdx]
\* faults when there are fewer arguments than parameters
RECURSIVE bindParameters(_, _, _, _, _)
bindParameters(params, paramIdx, args, env, st) ==
    IF paramIdx > Len(params) THEN R(Nil, st)
    ELSE IF paramIdx > Len(args) THEN Fault(st)
    ELSE LET s == Set(st.frames, env, params[paramIdx], args[paramIdx])
         IN  bindParameters(params, paramIdx + 1, args, env,
                 Emit([st EXCEPT !.frames = s.heap], "set", env,
                      Identifier(params[paramIdx]), args[paramIdx], <<>>))

\* the frame of a call is chained to the top-level frame
extendFunctionEnvGlobal(fn, args, st) ==
    LET n == NewEnclosedEnvironment(st.frames, 1)
        b == bindParameters(fn.Parameters, 1, args, n.env, [st EXCEPT !.frames = n.heap])
    IN  [val |-> b.val, env |-> n.env, st |-> b.st]

extendFunctionEnv(fn, args, st) ==
    LET n == NewEnclosedEnvironment(st.frames, fn.Env)
        b == bindParameters(fn.Parameters, 1, args, n.env, [st EXCEPT !.frames = n.heap])
    IN  [val |-> b.val, env |-> n.env, st |-> b.st]

\* the result of the body is handed on as it is
applyFunctionNoUnwrap(fn, args, st0) ==
    LET st == Emit(st0, "apply", 0, NoNode, fn, args)
    IN  IF IsNil(fn) THEN Fault(st)
        ELSE IF fn.Type = FUNCTION_OBJ
        THEN LET x == extendFunctionEnv(fn, args, st)
             IN  IF IsPanic(x.val) THEN R(Panic, x.st)
                 ELSE Eval(fn.Body, x.env, x.st)
        ELSE IF fn.Type = BUILTIN_OBJ
        THEN builtinFn(fn.Name, args, Emit(st, "builtin", 0, NoNode, fn, args))
        ELSE newError(st, "not a function: " \o fn.Type)

\* fn.Type() faults when the callee evaluated to nil
applyFunction(fn, args, st0) ==
    LET st == Emit(st0, "apply", 0, NoNode, fn, args)
    IN  IF IsNil(fn) THEN Fault(st)
        ELSE IF fn.Type = FUNCTION_OBJ
        THEN LET x == extendFunctionEnv(fn, args, st)
             IN  IF IsPanic(x.val) THEN R(Panic, x.st)
                 ELSE LET body == Eval(fn.Body, x.env, x.st)
                      IN  IF IsPanic(body.val) THEN body
                          ELSE R(unwrapReturnValue(body.val), body.st)
        ELSE IF fn.Type = BUILTIN_OBJ
        THEN builtinFn(fn.Name, args, Emit(st, "builtin", 0, NoNode, fn, args))
        ELSE newError(st, "not a function: " \o fn.Type)

\* the right operand is evaluated before the left one is tested
evalInfixNodeNoShortCircuit(node, env, st) ==
    LET left == Eval(node.Left, env, st)
    IN  IF IsPanic(left.val) THEN left
        ELSE LET right == Eval(node.Right, env, left.st)
             IN  IF IsPanic(right.val) THEN right
                 ELSE IF isError(left.val) THEN R(left.val, right.st)
                 ELSE IF isError(right.val) THEN right
                 ELSE evalInfixExpression(node.Operator, left.val, right.val, right.st)

\* case *ast.InfixExpression of Eval
evalInfixNode(node, env, st) ==
    LET left == Eval(node.Left, env, st)
    IN  IF IsPanic(left.val) THEN left
        ELSE IF isError(left.val) THEN left
        ELSE LET right == Eval(node.Right, env, left.st)
             IN  IF IsPanic(right.val) THEN right
                 ELSE IF isError(right.val) THEN right
                 ELSE evalInfixExpression(node.Operator, left.val, right.val, right.st)

\* case *ast.PrefixExpression of Eval
evalPrefixNode(node, env, st) ==
    LET right == Eval(node.Right, env, st)
    IN  IF IsPanic(right.val) THEN right
        ELSE IF isError(right.val) THEN right
        ELSE evalPrefixExpression(node.Operator, right.val, right.st)

\* case *ast.ReturnStatement of Eval
evalReturnNode(node, env, st) ==
    LET value == Eval(node.ReturnValue, env, st)
    IN  IF IsPanic(value.val) THEN value
        ELSE IF isError(value.val) THEN value
        ELSE R(ReturnValue(value.st.refs, value.val),
               [value.st EXCEPT !.refs = @ + 1])

\* the let statement returns what env.Set returns
evalLetNodeValue(node, env, st) ==
    LET value == Eval(node.Val, env, st)
    IN  IF IsPanic(value.val) THEN value
        ELSE IF isError(value.val) THEN value
        ELSE LET s == Set(value.st.frames, env, node.Name, value.val)
             IN  R(s.value, Emit([value.st EXCEPT !.frames = s.heap], "set", env,
                                 Identifier(node.Name), value.val, <<>>))

\* case *ast.LetStatement of Eval: the switch is left and Eval returns nil
evalLetNode(node, env, st) ==
    LET value == Eval(node.Val, env, st)
    IN  IF IsPanic(value.val) THEN value
        ELSE IF isError(value.val) THEN value
        ELSE LET s == Set(value.st.frames, env, node.Name, value.val)
             IN  R(Nil, Emit([value.st EXCEPT !.frames = s.heap], "set", env,
                             Identifier(node.Name), value.val, <<>>))

\* the arguments are evaluated although the callee is an Error
evalCallNodeArgsFirst(node, env, st) ==
    LET function == Eval(node.Function, env, st)
    IN  IF IsPanic(function.val) THEN function
        ELSE LET args == evalExpressions(node.Arguments, env, function.st)
             IN  IF IsPanic(args.val) THEN R(Panic, args.st)
                 ELSE IF isError(function.val) THEN R(function.val, args.st)
                 ELSE IF Len(args.objects) = 1 /\ isError(args.objects[1])
                 THEN R(args.objects[1], args.st)
                 ELSE applyFunction(function.val, args.objects, args.st)

\* case *ast.CallExpression of Eval
evalCallNode(node, env, st) ==
    LET function == Eval(node.Function, env, st)
    IN  IF IsPanic(function.val) THEN function
        ELSE IF isError(function.val) THEN function
        ELSE LET args == evalExpressions(node.Arguments, env, function.st)
             IN  IF IsPanic(args.val) THEN R(Panic, args.st)
                 ELSE IF Len(args.objects) = 1 /\ isError(args.objects[1])
                 THEN R(args.objects[1], args.st)
                 ELSE applyFunction(function.val, args.objects, args.st)

\* the switch of Eval
evalNode(node, env, st) ==
    CASE node.k = "Program" -> evalProgram(node, env, st)
      [] node.k = "ExpressionStatement" -> Eval(node.Expression, env, st)
      [] node.k = "IntegerLiteral" -> NewInteger(st, node.Value)
      [] node.k = "StringLiteral" -> NewString(st, node.Str)
      [] node.k = "Boolean" -> R(nativeBooleanToObject(node.Bool), st)
      [] node.k = "PrefixExpression" -> evalPrefixNode(node, env, st)
      [] node.k = "InfixExpression" -> evalInfixNode(node, env, st)
      [] node.k = "BlockStatement" -> evalBlockStatement(node, env, st)
      [] node.k = "IfExpression" -> evalIfExpression(node, env, st)
      [] node.k = "ReturnStatement" -> evalReturnNode(node, env, st)
      [] node.k = "LetStatement" -> evalLetNode(node, env, st)
      [] node.k = "Identifier" -> evalIdentifier(node, env, st)
      [] node.k = "FunctionLiteral" ->
            R(Function(st.refs, node.Parameters, node.Body, env),
              [st EXCEPT !.refs = @ + 1])
      [] node.k = "CallExpression" -> evalCallNode(node, env, st)
      [] node.k = "ArrayLiteral" -> evalArrayLiteral(node, env, st)
      [] node.k = "IndexExpression" -> evalIndexExpression(node, env, st)
      [] node.k = "RangeExpression" -> evalRangeExpression(node, env, st)
      [] node.k = "HashLiteral" -> evalHashExpression(node, env, st)
      [] OTHER -> R(Nil, st)

\* Eval(node, env): the call is entered ("eval"), the switch runs, and the
\* call returns ("ret") unless the host faulted; a nesting deeper than
\* MaxDepth exhausts the stack of the host
Eval(node, env, st) ==
    LET entered == Emit([st EXCEPT !.depth = @ + 1], "eval", env, node, Nil, <<>>)
    IN  IF entered.depth > MaxDepth THEN Fault(entered)
        ELSE LET r == evalNode(node, env, entered)
             IN  IF IsPanic(r.val) THEN r
                 ELSE R(r.val, [Emit(r.st, "ret", env, node, r.val, <<>>)
                                  EXCEPT !.depth = @ - 1])

(***************************************************************************)
(* The Environment used on its own: frames are created, written and read   *)
(***************************************************************************)
EnvNames == {"a", "b"}
EnvValues == {Integer(1, 1), Integer(2, 2)}

NoOp == [op |-> "none", env |-> 0, name |-> "", value |-> Nil, ok |-> FALSE]

InitEnv ==
    /\ frames = <<>>
    /\ last = NoOp
    /\ refs = 0
    /\ lines = 0
    /\ program = NoNode
    /\ before = <<>>
    /\ evaluated = Nil
    /\ trace = <<>>
    /\ backing = <<>>
    /\ backing0 = <<>>
    /\ source = NoSource
    /\ parsed = NoNode
    /\ errors = <<>>
    /\ steps = <<>>

\* the one top-level Environment (repl.Start creates it once)
EnvNew ==
    /\ Len(frames) = 0
    /\ LET r == NewEnvironment(frames)
       IN  /\ frames' = r.heap
           /\ last' = [NoOp EXCEPT !.op = "NewEnvironment", !.env = r.env]
    /\ UNCHANGED <<refs, lines, program, before, evaluated, trace, backing, backing0>>
    /\ UNCHANGED <<source, parsed, errors, steps>>

EnvEnclose ==
    /\ Len(frames) < MaxEnvs
    /\ \E outer \in 1..Len(frames) :
         LET r == NewEnclosedEnvironment(frames, outer)
         IN  /\ frames' = r.heap
             /\ last' = [NoOp EXCEPT !.op = "NewEnclosedEnvironment", !.env = r.env]
    /\ UNCHANGED <<refs, lines, program, before, evaluated, trace, backing, backing0>>
    /\ UNCHANGED <<source, parsed, errors, steps>>

EnvSet ==
    /\ \E e \in 1..Len(frames), name \in EnvNames, value \in EnvValues :
         LET r == Set(frames, e, name, value)
         IN  /\ frames' = r.heap
             /\ last' = [op |-> "Set", env |-> e, name |-> name,
                         value |-> r.value, ok |-> TRUE]
    /\ UNCHANGED <<refs, lines, program, before, evaluated, trace, backing, backing0>>
    /\ UNCHANGED <<source, parsed, errors, steps>>

EnvGet ==
    /\ \E e \in 1..Len(frames), name \in EnvNames :
         LET r == Get(frames, e, name)
         IN  last' = [op |-> "Get", env |-> e, name |-> name,
                      value |-> r.value, ok |-> r.ok]
    /\ UNCHANGED <<frames, refs, lines, program, before, evaluated, trace, backing, backing0>>
    /\ UNCHANGED <<source, parsed, errors, steps>>

NextEnv == EnvNew \/ EnvEnclose \/ EnvSet \/ EnvGet

SpecEnv == InitEnv /\ [][NextEnv]_vars

(***************************************************************************)
(* Environment properties                                                  *)
(***************************************************************************)
\* the frames of the chain that starts at e, innermost first
RECURSIVE Chain(_, _)
Chain(h, e) == IF e = 0 THEN <<>> ELSE <<e>> \o Chain(h, h[e].outer)

\* the frames that enclose e
Enclosing(h, e) == {Chain(h, e)[i] : i \in 2..Len(Chain(h, e))}

\* what a lookup of name from e must give: the binding of the nearest frame
Nearest(h, e, name) ==
    LET c == Chain(h, e)
        binders == {i \in 1..Len(c) : name \in DOMAIN h[c[i]].store}
    IN  IF binders = {}
        THEN [value |-> Nil, ok |-> FALSE]
        ELSE LET i == CHOOSE j \in binders : \A k \in binders : j <= k
             IN  [value |-> h[c[i]].store[name], ok |-> TRUE]

SetFrameEffect ==
    LET e == last'.env
        name == last'.name
    IN  /\ Len(frames') = Len(frames)
        /\ last'.value \in EnvValues
        /\ Get(frames', e, name) = [value |-> last'.value, ok |-> TRUE]
        /\ \A f \in 1..Len(frames) : f # e => frames'[f] = frames[f]
        /\ frames'[e].outer = frames[e].outer
        /\ \A f \in Enclosing(frames, e) : \A n \in EnvNames :
              Get(frames', f, n) = Get(frames, f, n)
        /\ \A n \in EnvNames \ {name} : Get(frames', e, n) = Get(frames, e, n)

GetNearest ==
    /\ UNCHANGED frames
    /\ [value |-> last'.value, ok |-> last'.ok] = Nearest(frames, last'.env, last'.name)

\* C6: Set changes only the receiver frame: afterwards Get(name) on it gives
\* (v, true), Get of every name on every enclosing frame gives what it gave
\* before (an outer binding of name is shadowed, not updated), and Get gives
\* the binding of the nearest frame that binds the name, (absent, false) only
\* when no frame of the chain binds it.
C6_SetWritesReceiverOnly ==
    [][/\ (last' # last /\ last'.op = "Set") => SetFrameEffect
       /\ (last' # last /\ last'.op = "Get") => GetNearest]_vars

\* an inner frame has been written with a name that an enclosing frame binds
\* to another value
C6_Witness ==
    /\ last.op = "Set"
    /\ frames[last.env].outer # 0
    /\ \E f \in Enclosing(frames, last.env) :
          /\ last.name \in DOMAIN frames[f].store
          /\ frames[f].store[last.name] # last.value

(***************************************************************************)
(* The lines given to the loop: Programs that parse without diagnostics    *)
(***************************************************************************)
MaxStmts == 2

Prog1(exp) == Program(<<ExpressionStatement(exp)>>)
Block1(exp) == BlockStatement(<<ExpressionStatement(exp)>>)
Println(s) == CallExpression(Identifier("println"), <<StringLiteral(s)>>)

one == IntegerLiteral(1)
zero == IntegerLiteral(0)
true_ == Boolean(TRUE)
false_ == Boolean(FALSE)
\* "a"
strA == StringLiteral(<<97>>)
emptyStr == StringLiteral(<<>>)
undef == Identifier("u")
undef2 == Identifier("w")
pr == Println(<<112>>)
\* if (false) { 1 }: the NULL instance
nul == IfExpression(false_, Block1(one), NoNode)
\* if (true) { return 1; }
ifReturn == IfExpression(true_, BlockStatement(<<ReturnStatement(one)>>), NoNode)
arr == ArrayLiteral(<<one>>)
emptyFn == FunctionLiteral(<<>>, BlockStatement(<<>>))

Operators == {"+", "-", "*", "/", "<", ">", "==", "!="}

\* operands that yield a value, an Error, another Error, or write and yield nil
ErrPool == {one, undef, undef2, pr}

\* operands of every type the fallback cases of evalInfixExpression can meet
TypePool == {true_, false_, nul, one, strA, arr}

StmtPool == {ExpressionStatement(one), ExpressionStatement(undef),
             ReturnStatement(strA), LetStatement("x", one), ExpressionStatement(pr)}

RECURSIVE SeqsUpTo(_, _)
SeqsUpTo(S, n) ==
    IF n = 0 THEN {<<>>}
    ELSE LET shorter == SeqsUpTo(S, n - 1)
         IN  shorter \cup {Append(s, x) : s \in {t \in shorter : Len(t) = n - 1}, x \in S}

SequencePrograms == {Program(s) : s \in SeqsUpTo(StmtPool, MaxStmts)}

InfixErrorPrograms ==
    {Prog1(InfixExpression(a, "+", b)) : a \in ErrPool, b \in ErrPool}
    \cup {Prog1(InfixExpression(InfixExpression(undef, "+", one), "+", pr)),
          Prog1(InfixExpression(one, "-", InfixExpression(pr, "+", undef))),
          Prog1(InfixExpression(one, "/", zero))}

InfixTypePrograms ==
    {Prog1(InfixExpression(a, op, b)) : a \in TypePool, b \in TypePool, op \in Operators}
    \cup {Program(<<LetStatement("a", arr),
                    ExpressionStatement(InfixExpression(Identifier("a"), op, Identifier("a")))>>)
            : op \in {"==", "!=", "+"}}
    \cup {Prog1(InfixExpression(emptyFn, op, emptyFn)) : op \in {"==", "<"}}

PrefixPrograms ==
    {Prog1(PrefixExpression(op, a)) : op \in {"!", "-"}, a \in {one, true_, nul, undef, pr}}

\* fn() { if (c1) { if (c2) { return 1; } println("p") } "a" }(); 0
NestedReturn(c1, c2) ==
    LET inner == BlockStatement(<<ExpressionStatement(IfExpression(c2,
                        BlockStatement(<<ReturnStatement(one)>>), NoNode)),
                    ExpressionStatement(pr)>>)
        body == BlockStatement(<<ExpressionStatement(IfExpression(c1, inner, NoNode)),
                    ExpressionStatement(strA)>>)
    IN  Program(<<ExpressionStatement(CallExpression(FunctionLiteral(<<>>, body), <<>>)),
                  ExpressionStatement(zero)>>)

ReturnPrograms ==
    {NestedReturn(c1, c2) : c1 \in {true_, false_}, c2 \in {true_, false_}}
    \cup {\* if (true) { if (true) { return 1; } println("p") } "a"
          Program(<<ExpressionStatement(IfExpression(true_,
                        BlockStatement(<<ExpressionStatement(ifReturn),
                                         ExpressionStatement(pr)>>), NoNode)),
                    ExpressionStatement(strA)>>),
          \* fn() { fn() { return 1; }(); "a" }()
          Prog1(CallExpression(FunctionLiteral(<<>>, BlockStatement(<<
                    ExpressionStatement(CallExpression(FunctionLiteral(<<>>,
                        BlockStatement(<<ReturnStatement(one)>>)), <<>>)),
                    ExpressionStatement(strA)>>)), <<>>)),
          \* fn() { if (true) { return 1; } else { return "a"; } }(); println("p")
          Program(<<ExpressionStatement(CallExpression(FunctionLiteral(<<>>,
                        Block1(IfExpression(true_, BlockStatement(<<ReturnStatement(one)>>),
                                            BlockStatement(<<ReturnStatement(strA)>>)))), <<>>)),
                    ExpressionStatement(pr)>>),
          \* let x = if (true) { return 1; }; x
          Program(<<LetStatement("x", ifReturn), ExpressionStatement(Identifier("x"))>>),
          \* return if (true) { return 1; }
          Program(<<ReturnStatement(ifReturn)>>),
          \* [if (true) { return 1; }]
          Prog1(ArrayLiteral(<<ifReturn>>)),
          \* fn(a) { a }(if (true) { return 1; })
          Prog1(CallExpression(FunctionLiteral(<<"a">>, Block1(Identifier("a"))),
                               <<ifReturn>>)),
          \* (if (true) { return 1; }) + 1; "a"
          Program(<<ExpressionStatement(InfixExpression(ifReturn, "+", one)),
                    ExpressionStatement(strA)>>),
          \* fn() { let y = if (true) { return 1; }; "a" }()
          Prog1(CallExpression(FunctionLiteral(<<>>, BlockStatement(<<
                    LetStatement("y", ifReturn), ExpressionStatement(strA)>>)), <<>>))}

\* programs whose last statement is there for its effect only
EffectPrograms ==
    {Prog1(CallExpression(emptyFn, <<>>)),
     Prog1(IfExpression(true_, BlockStatement(<<>>), NoNode)),
     Prog1(IfExpression(false_, Block1(one), BlockStatement(<<>>))),
     Prog1(CallExpression(Identifier("println"), <<strA, one, pr>>)),
     Prog1(CallExpression(Identifier("println"), <<one>>)),
     Prog1(CallExpression(Identifier("len"), <<arr>>)),
     Prog1(CallExpression(Identifier("len"), <<strA>>)),
     Prog1(CallExpression(Identifier("push"), <<arr, strA>>)),
     Prog1(CallExpression(Identifier("push"), <<one, strA>>))}

ClosurePrograms ==
    {\* let a = 1; let f = fn() { a }; let a = "a"; f()
     Program(<<LetStatement("a", one),
               LetStatement("f", FunctionLiteral(<<>>, Block1(Identifier("a")))),
               LetStatement("a", strA),
               ExpressionStatement(CallExpression(Identifier("f"), <<>>))>>),
     \* let f = fn() { b }; let b = 1; f()
     Program(<<LetStatement("f", FunctionLiteral(<<>>, Block1(Identifier("b")))),
               LetStatement("b", one),
               ExpressionStatement(CallExpression(Identifier("f"), <<>>))>>),
     \* let g = fn() { c }; let h = fn(c) { g() }; h(1)
     Program(<<LetStatement("g", FunctionLiteral(<<>>, Block1(Identifier("c")))),
               LetStatement("h", FunctionLiteral(<<"c">>,
                                    Block1(CallExpression(Identifier("g"), <<>>)))),
               ExpressionStatement(CallExpression(Identifier("h"), <<one>>))>>),
     \* let adder = fn(x) { fn(y) { x + y } }; adder(1)(0)
     Program(<<LetStatement("adder", FunctionLiteral(<<"x">>,
                   Block1(FunctionLiteral(<<"y">>,
                       Block1(InfixExpression(Identifier("x"), "+", Identifier("y"))))))),
               ExpressionStatement(CallExpression(
                   CallExpression(Identifier("adder"), <<one>>), <<zero>>))>>),
     \* let x = "a"; fn(x) { x }(1)
     Program(<<LetStatement("x", strA),
               ExpressionStatement(CallExpression(
                   FunctionLiteral(<<"x">>, Block1(Identifier("x"))), <<one>>))>>),
     \* let r = fn() { r() }; r()
     Program(<<LetStatement("r", FunctionLiteral(<<>>,
                   Block1(CallExpression(Identifier("r"), <<>>)))),
               ExpressionStatement(CallExpression(Identifier("r"), <<>>))>>)}

\* fn(p, q) { println("p") }
twoParams == FunctionLiteral(<<"p", "q">>, Block1(pr))

CallPrograms ==
    {Prog1(CallExpression(callee, <<a, b>>)) :
        callee \in {undef, Identifier("len"), twoParams, one}, a \in ErrPool, b \in ErrPool}
    \cup {Prog1(CallExpression(twoParams, <<one>>)),
          Prog1(CallExpression(twoParams, <<one, zero, undef>>)),
          Prog1(CallExpression(twoParams, <<one, zero, strA>>)),
          Prog1(CallExpression(pr, <<one>>)),
          Prog1(ArrayLiteral(<<one, undef, pr>>))}

IfPrograms ==
    {Prog1(IfExpression(c, Block1(pr), alt)) :
        c \in {true_, false_, nul, zero, emptyStr, one, undef, pr},
        alt \in {NoNode, Block1(Println(<<113>>))}}

\* the literal of the integer n
int(n) == IF n < 0 THEN PrefixExpression("-", IntegerLiteral(-n)) ELSE IntegerLiteral(n)

\* [], [1, "a"], "", "ab" and the two bytes of the UTF-8 text of e-acute
IndexTargets ==
    {ArrayLiteral(<<>>), ArrayLiteral(<<one, strA>>),
     StringLiteral(<<>>), StringLiteral(<<97, 98>>), StringLiteral(<<195, 169>>)}

IndexValues == {-2, -1, 0, 1, 2, 5}

\* target[i]
IndexPrograms ==
    {Prog1(IndexExpression(t, int(i))) : t \in IndexTargets, i \in IndexValues}
    \cup {Prog1(IndexExpression(t, i)) : t \in {arr, strA}, i \in {true_, strA, undef}}
    \cup {Prog1(IndexExpression(t, one)) : t \in {one, true_, undef, emptyFn}}

RangeValues == {-1, 0, 1, 2, 3}

\* a:b, and target[a:b]
RangePrograms ==
    {Prog1(RangeExpression(int(a), int(b))) : a \in RangeValues, b \in RangeValues}
    \cup {Prog1(RangeExpression(a, b)) : a \in {one, true_, undef}, b \in {one, strA, undef}}
    \cup {Prog1(IndexExpression(t, RangeExpression(int(a), int(b)))) :
             t \in {ArrayLiteral(<<one, strA>>), StringLiteral(<<97, 98>>)},
             a \in RangeValues, b \in RangeValues}
    \cup {Prog1(IndexExpression(t, RangeExpression(zero, zero))) :
             t \in {ArrayLiteral(<<>>), StringLiteral(<<>>), one}}

\* push(x, 9), x[0:1], x[1:2]
Derive(op, x) ==
    CASE op = "push" -> CallExpression(Identifier("push"), <<x, int(9)>>)
      [] op = "head" -> IndexExpression(x, RangeExpression(zero, one))
      [] op = "tail" -> IndexExpression(x, RangeExpression(one, int(2)))

\* let a = [...]; let b = op1(a); let c = op2(a or b); a or b
PushPrograms ==
    {Program(<<LetStatement("a", ArrayLiteral(l)),
               LetStatement("b", Derive(op1, Identifier("a"))),
               LetStatement("c", Derive(op2, Identifier(x))),
               ExpressionStatement(Identifier(y))>>) :
        l \in {<<one, int(2)>>, <<one, int(2), int(3)>>},
        op1 \in {"push", "head", "tail"}, op2 \in {"push", "head", "tail"},
        x \in {"a", "b"}, y \in {"a", "b"}}

\* the side-effect-only constructs: println("p"), fn() { }(), if (true) { }
NoValues ==
    {pr, CallExpression(emptyFn, <<>>), IfExpression(true_, BlockStatement(<<>>), NoNode)}

\* their absent result as an operand, an argument, an index target, an index
\* and a bound of a range
NoValuePrograms ==
    {Prog1(InfixExpression(n, op, one)) : n \in NoValues, op \in {"+", "=="}}
    \cup {Prog1(InfixExpression(l, op, n)) :
             n \in NoValues, op \in {"+", "=="}, l \in {one, true_}}
    \cup {Prog1(PrefixExpression(op, n)) : n \in NoValues, op \in {"-", "!"}}
    \cup {Prog1(CallExpression(Identifier(f), <<n>>)) :
             n \in NoValues, f \in {"len", "println"}}
    \cup {Prog1(CallExpression(Identifier("push"), <<n, one>>)) : n \in NoValues}
    \cup {Prog1(CallExpression(n, <<>>)) : n \in NoValues}
    \cup {Prog1(IndexExpression(n, zero)) : n \in NoValues}
    \cup {Prog1(IndexExpression(t, n)) :
             n \in NoValues, t \in {arr, strA, HashLiteral(<<>>)}}
    \cup {Prog1(RangeExpression(n, one)) : n \in NoValues}
    \cup {Prog1(RangeExpression(zero, n)) : n \in NoValues}
    \cup {Prog1(CallExpression(FunctionLiteral(<<"p">>, Block1(Identifier("p"))), args)) :
             args \in {<<>>, <<one>>, <<one, zero>>}}
    \cup {Prog1(InfixExpression(int(a), "/", int(b))) : a \in {-3, 0, 3}, b \in {-2, 0, 2}}

Pair(key, value) == [Key |-> key, Val |-> value]

\* "b"
strB == StringLiteral(<<98>>)

\* {1: "a", true: "b"}, {0: "a", false: "b"}, {1: "a", 1: "b"},
\* {-1: "a", 1: "b"}, {"a": 1, "b": 0}, {}
HashLiterals ==
    {HashLiteral(<<Pair(one, strA), Pair(true_, strB)>>),
     HashLiteral(<<Pair(zero, strA), Pair(false_, strB)>>),
     HashLiteral(<<Pair(one, strA), Pair(one, strB)>>),
     HashLiteral(<<Pair(int(-1), strA), Pair(one, strB)>>),
     HashLiteral(<<Pair(strA, one), Pair(strB, zero)>>),
     HashLiteral(<<>>)}

\* hash[key], and literals whose pairs yield Errors, nil or unusable keys
HashPrograms ==
    {Prog1(IndexExpression(h, key)) :
        h \in HashLiterals, key \in {one, zero, int(-1), int(2), true_, false_, strA, arr}}
    \cup {Prog1(HashLiteral(<<Pair(a, one), Pair(b, zero)>>)) :
             a \in {undef, emptyFn, one}, b \in {undef2, arr, pr}}
    \cup {Prog1(HashLiteral(<<Pair(one, a), Pair(zero, b)>>)) :
             a \in {undef, strA}, b \in {undef2, pr}}

\* the orders a range loop may visit the entries of a map in; a program that
\* evaluates a HashLiteral runs under each of them
Orders == {<<1, 2>>, <<2, 1>>}

OrdersOf(p) == IF p \in HashPrograms THEN {<<a>> : a \in Orders} ELSE {<<>>}

Programs ==
    SequencePrograms \cup InfixErrorPrograms \cup InfixTypePrograms
    \cup PrefixPrograms \cup ReturnPrograms \cup EffectPrograms
    \cup ClosurePrograms \cup CallPrograms \cup IfPrograms
    \cup IndexPrograms \cup RangePrograms \cup HashPrograms \cup PushPrograms
    \cup NoValuePrograms

\* the lines typed after the first: those that read or write the bindings and
\* the arrays an earlier line left behind
FollowPrograms ==
    SequencePrograms \cup EffectPrograms \cup ClosurePrograms \cup PushPrograms

(***************************************************************************)
(* repl/repl.go: the read-eval loop                                        *)
(***************************************************************************)
\* Start creates the top-level Environment before the first line is read
Init ==
    /\ frames = NewEnvironment(<<>>).heap
    /\ last = NoOp
    /\ refs = 0
    /\ lines = 0
    /\ program = NoNode
    /\ before = <<>>
    /\ evaluated = Nil
    /\ trace = <<>>
    /\ backing = <<>>
    /\ backing0 = <<>>
    /\ source = NoSource
    /\ parsed = NoNode
    /\ errors = <<>>
    /\ steps = <<>>

\* one turn of the loop of Start: a line that parsed without diagnostics is
\* evaluated in the top-level Environment, which the next line finds as this
\* one left it; a fault of the host ends the process
ReplLine ==
    /\ lines < MaxLines
    /\ ~IsPanic(evaluated)
    /\ \E p \in (IF lines = 0 THEN Programs ELSE FollowPrograms) :
       \E orders \in OrdersOf(p) :
         LET r == Eval(p, 1, [frames |-> frames, refs |-> refs, depth |-> 0,
                              tr |-> <<>>, backing |-> backing, orders |-> orders])
         IN  /\ frames' = r.st.frames
             /\ backing' = r.st.backing
             /\ backing0' = backing
             /\ refs' = r.st.refs
             /\ program' = p
             /\ before' = frames
             /\ evaluated' = r.val
             /\ trace' = r.st.tr
    /\ lines' = lines + 1
    /\ UNCHANGED <<last, source, parsed, errors, steps>>

Next == ReplLine

Spec == Init /\ [][Next]_vars

(***************************************************************************)
(* Reading the trace of an evaluation                                      *)
(***************************************************************************)
Min(S) == CHOOSE x \in S : \A y \in S : x <= y
Max(S) == CHOOSE x \in S : \A y \in S : x >= y

Evals == {i \in 1..Len(trace) : trace[i].e = "eval"}
Rets == {i \in 1..Len(trace) : trace[i].e = "ret"}
\* the entries of Eval on a node of kind that the stack had room for
EvalsOf(kind) == {i \in Evals : trace[i].node.k = kind /\ trace[i].d <= MaxDepth}

\* the return of the Eval call entered at i, 0 when the host faulted in it
RetOf(i) ==
    LET c == {j \in Rets : j > i /\ trace[j].d = trace[i].d}
    IN  IF c = {} THEN 0 ELSE Min(c)

\* the entry of the Eval call that returns at j
EvalOf(j) == Max({i \in Evals : i < j /\ trace[i].d = trace[j].d})

\* the entry of the Eval call that made the call event i belongs to, 0 at the top
Parent(i) ==
    LET c == {p \in Evals : p < i /\ trace[p].d = trace[i].d - 1}
    IN  IF c = {} THEN 0 ELSE Max(c)

\* event i is the entry of Eval on node in env, called from the call entered at p
Enters(i, p, node) ==
    /\ i <= Len(trace)
    /\ trace[i].e = "eval"
    /\ trace[i].d = trace[p].d + 1
    /\ trace[i].env = trace[p].env
    /\ trace[i].node = node

\* event i is the return of the call entered at p, with val
Returns(i, p, val) ==
    /\ i <= Len(trace)
    /\ trace[i].e = "ret"
    /\ trace[i].d = trace[p].d
    /\ trace[i].node = trace[p].node
    /\ trace[i].val = val

\* event i is the return of the call entered at p, or the fault that ends it
ReturnsOrFaults(i, p) ==
    /\ i <= Len(trace)
    /\ \/ trace[i].e = "panic"
       \/ trace[i].e = "ret" /\ trace[i].d = trace[p].d /\ trace[i].node = trace[p].node

(***************************************************************************)
(* Evaluator properties                                                    *)
(***************************************************************************)
InfixOrder(i) ==
    LET node == trace[i].node
        l == i + 1
        lr == RetOf(l)
        r == lr + 1
        rr == RetOf(r)
    IN  /\ Enters(l, i, node.Left)
        /\ lr # 0 =>
             IF isError(trace[lr].val)
             THEN Returns(lr + 1, i, trace[lr].val)
             ELSE /\ Enters(r, i, node.Right)
                  /\ rr # 0 =>
                       IF isError(trace[rr].val)
                       THEN Returns(rr + 1, i, trace[rr].val)
                       ELSE ReturnsOrFaults(rr + 1, i)

\* C1: an InfixExpression evaluates its left operand first and its right
\* operand second; an Error from the left operand is returned at once, as the
\* same object, with nothing of the right operand evaluated in between; an
\* Error from the right operand is returned as it is, the operator not applied.
C1_InfixShortCircuit == \A i \in EvalsOf("InfixExpression") : InfixOrder(i)

\* u + println("p") has been evaluated: the left operand gave an Error and
\* nothing was printed; and an Error has come from a right operand
C1_Witness ==
    /\ \E i \in EvalsOf("InfixExpression") :
          /\ RetOf(i + 1) # 0
          /\ isError(trace[RetOf(i + 1)].val)
          /\ trace[i].node.Right = pr
          /\ evaluated = trace[RetOf(i + 1)].val
    /\ \A i \in 1..Len(trace) : trace[i].e # "print"

\* the entries of the Eval calls on the statements of the Program: the calls
\* made from the outermost call
StatementEvals == {i \in Evals : trace[i].d = 2}

\* the entry of the j-th statement evaluated
NthStatement(j) ==
    CHOOSE i \in StatementEvals : Cardinality({x \in StatementEvals : x < i}) = j - 1

IsObject(v, type) == ~IsNil(v) /\ ~IsPanic(v) /\ v.Type = type

\* v ends the loop of evalProgram
Stops(v) == IsObject(v, RETURN_VALUE_OBJ) \/ IsObject(v, ERROR_OBJ)

ProgramOrder ==
    LET stmts == program.Statements
        k == Cardinality(StatementEvals)
    IN  /\ k <= Len(stmts)
        /\ Len(stmts) > 0 => k > 0 /\ NthStatement(1) = 2
        /\ Len(stmts) = 0 => IsNil(evaluated)
        /\ \A j \in 1..k :
             LET s == NthStatement(j)
                 r == RetOf(s)
             IN  /\ Enters(s, 1, stmts[j])
                 /\ r = 0 => j = k /\ IsPanic(evaluated)
                 /\ r # 0 =>
                      LET v == trace[r].val
                      IN  IF IsObject(v, ERROR_OBJ)
                          THEN j = k /\ evaluated = v /\ Returns(r + 1, 1, v)
                          ELSE IF IsObject(v, RETURN_VALUE_OBJ)
                          THEN j = k /\ evaluated = v.Object /\ Returns(r + 1, 1, v.Object)
                          ELSE IF j < Len(stmts)
                          THEN j < k /\ NthStatement(j + 1) = r + 1
                          ELSE evaluated = v /\ Returns(r + 1, 1, v)

\* C2: a Program runs its statements in order; the first statement that
\* yields an Error makes that Error, unchanged, the result, the first that
\* yields a ReturnValue makes its inner value the result, and no later
\* statement is evaluated; otherwise the result is that of the last statement.
C2_ProgramStatementsInOrder == lines > 0 => ProgramOrder

\* a return statement has ended a program that has a statement after it
C2_Witness ==
    /\ lines > 0
    /\ Len(program.Statements) > Cardinality(StatementEvals)
    /\ \E j \in Rets : /\ trace[j].d = 2
                       /\ IsObject(trace[j].val, RETURN_VALUE_OBJ)
                       /\ evaluated = trace[j].val.Object
                       /\ IsObject(evaluated, STRING_OBJ)

\* the call entered at m evaluates the body of a function: applyFunction has
\* bound the parameters just before
IsBody(m) == trace[m - 1].e \in {"apply", "set"}

\* the position of the statement entered at s in its block
StmtIndex(s) ==
    Cardinality({x \in Evals : x > Parent(s) /\ x <= s /\ trace[x].d = trace[s].d})

\* the call entered at c has returned at cr with a value that is neither an
\* Error nor a ReturnValue, and it is a statement of a block that has a
\* statement after it: that statement is evaluated next
CallerGoesOn(c, cr) ==
    LET s == Parent(c)
        b == Parent(s)
    IN  (/\ s # 0
         /\ b # 0
         /\ trace[s].node.k = "ExpressionStatement"
         /\ trace[b].node.k \in {"BlockStatement", "Program"}
         /\ ~Stops(trace[cr].val)
         /\ StmtIndex(s) < Len(trace[b].node.Statements))
        => /\ Returns(cr + 1, s, trace[cr].val)
           /\ Enters(cr + 2, b, trace[b].node.Statements[StmtIndex(s) + 1])

\* the ReturnValue returned at j passes through the enclosing block, statement
\* or if-branch untouched and at once, and is unwrapped by the call (or the
\* Program) whose body it ends
ReturnUnwinds(j) ==
    LET m == EvalOf(j)
        p == Parent(m)
        v == trace[j].val
        kind == trace[p].node.k
    IN  p # 0 =>
          CASE kind \in {"BlockStatement", "ExpressionStatement"} -> Returns(j + 1, p, v)
            [] kind = "IfExpression" /\ trace[m].node.k = "BlockStatement" ->
                  Returns(j + 1, p, v)
            [] kind = "CallExpression" /\ IsBody(m) ->
                  Returns(j + 1, p, v.Object) /\ CallerGoesOn(p, j + 1)
            [] kind = "Program" -> Returns(j + 1, p, v.Object)
            [] OTHER -> TRUE

ObjectTypes == {INTEGER_OBJ, STRING_OBJ, BOOLEAN_OBJ, NULL_OBJ, RETURN_VALUE_OBJ,
                ERROR_OBJ, FUNCTION_OBJ, BUILTIN_OBJ, ARRAY_OBJ, RANGE_OBJ, HASH_OBJ}

\* C4 as stated: the result of evaluating a Program is never absent
C4_NeverAbsent == (lines > 0 /\ ~IsPanic(evaluated)) => ~IsNil(evaluated)

\* C4, amended: unless the host faults, the result is one Object or absent;
\* it is absent when the program has no statement or its last statement is
\* evaluated and yields nil, which is what every let statement whose value is
\* not an Error, every println that writes and every empty block yield.
C4_ObjectOrAbsent ==
    (lines > 0 /\ ~IsPanic(evaluated)) =>
        LET stmts == program.Statements
            k == Cardinality(StatementEvals)
        IN  /\ evaluated.Type \in ObjectTypes \cup {"nil"}
            /\ Len(stmts) = 0 => IsNil(evaluated)
            /\ (k > 0 /\ k = Len(stmts) /\ IsNil(trace[RetOf(NthStatement(k))].val))
                  => IsNil(evaluated)
            /\ \A j \in Rets :
                  /\ trace[j].node.k = "LetStatement"
                        => IsNil(trace[j].val) \/ isError(trace[j].val)
                  /\ (trace[j].node.k = "BlockStatement" /\ trace[j].node.Statements = <<>>)
                        => IsNil(trace[j].val)
            /\ \A i \in 1..Len(trace) :
                  trace[i].e = "print" => /\ i < Len(trace)
                                          /\ trace[i + 1].e = "ret"
                                          /\ trace[i + 1].node.k = "CallExpression"
                                          /\ IsNil(trace[i + 1].val)

\* a program whose last statement is a let statement has given no value
C4_Witness ==
    /\ lines > 0
    /\ Len(program.Statements) > 0
    /\ program.Statements[Len(program.Statements)].k = "LetStatement"
    /\ Cardinality(StatementEvals) = Len(program.Statements)
    /\ IsNil(evaluated)

\* the objects held by v: itself, and the elements of an Array
RECURSIVE Held(_)
Held(v) ==
    IF IsNil(v) \/ IsPanic(v) THEN {}
    ELSE IF v.Type = ARRAY_OBJ
    THEN LET elements == Elems(backing, v.Elements)
         IN  {v} \cup UNION {Held(elements[i]) : i \in 1..Len(elements)}
    ELSE {v}

HoldsReturnValue(v) == \E o \in Held(v) : o.Type = RETURN_VALUE_OBJ

\* C5: a ReturnValue never leaves the control flow of the evaluator: it is
\* never the result of a Program, never bound to a name, never an argument,
\* never an Array element, never an operand.
C5_ReturnValueNeverSurfaces ==
    /\ ~HoldsReturnValue(evaluated)
    /\ \A f \in 1..Len(frames) : \A n \in DOMAIN frames[f].store :
          ~HoldsReturnValue(frames[f].store[n])
    /\ \A i \in 1..Len(trace) :
          /\ trace[i].e = "apply" =>
                \A a \in 1..Len(trace[i].args) : ~HoldsReturnValue(trace[i].args[a])
          /\ (trace[i].e = "ret"
              /\ Parent(EvalOf(i)) # 0
              /\ trace[Parent(EvalOf(i))].node.k \in {"InfixExpression", "PrefixExpression"})
                => ~HoldsReturnValue(trace[i].val)

\* the value name is bound to in frame f just before event i, from the writes
\* made so far: [value, ok]
StoreAt(i, f, name) ==
    LET sets == {s \in 1..(i - 1) : /\ trace[s].e = "set"
                                    /\ trace[s].env = f
                                    /\ trace[s].node.Name = name}
    IN  IF sets # {} THEN [value |-> trace[Max(sets)].val, ok |-> TRUE]
        ELSE IF f <= Len(before) /\ name \in DOMAIN before[f].store
        THEN [value |-> before[f].store[name], ok |-> TRUE]
        ELSE [value |-> Nil, ok |-> FALSE]

\* the binding of name seen from frame e just before event i: that of the
\* nearest frame of the chain of e that binds it
RECURSIVE LookupAt(_, _, _)
LookupAt(i, e, name) ==
    IF e = 0 THEN [value |-> Nil, ok |-> FALSE]
    ELSE IF StoreAt(i, e, name).ok THEN StoreAt(i, e, name)
    ELSE LookupAt(i, frames[e].outer, name)

\* the frames that exist just before event i
FramesAt(i) ==
    {f \in 1..Len(frames) :
        \/ f <= Len(before)
        \/ \E x \in 1..(i - 1) : trace[x].e \in {"eval", "set"} /\ trace[x].env = f}

\* applyFunction at event a calls a Function: the parameters are bound in a
\* fresh frame e whose outer is the frame the Function captured, and the body
\* is evaluated in e
CallFrame(a) ==
    LET fn == trace[a].val
        args == trace[a].args
        n == Len(fn.Parameters)
        b == a + n + 1
    IN  Len(args) >= n =>
          /\ b <= Len(trace)
          /\ trace[b].e = "eval"
          /\ trace[b].node = fn.Body
          /\ trace[b].env \notin FramesAt(a)
          /\ frames[trace[b].env].outer = fn.Env
          /\ \A x \in 1..n : /\ trace[a + x].e = "set"
                             /\ trace[a + x].env = trace[b].env
                             /\ trace[a + x].node.Name = fn.Parameters[x]
                             /\ trace[a + x].val = args[x]

\* the Identifier evaluated in the call that returns at j resolves along the
\* chain of the frame it is evaluated in
Resolves(j) ==
    LET name == trace[j].node.Name
        found == LookupAt(j, trace[j].env, name)
    IN  IF found.ok THEN trace[j].val = found.value
        ELSE IF name \in BuiltinNames THEN trace[j].val = Builtin(name)
        ELSE isError(trace[j].val)

\* C7: a Function is called in a fresh frame whose outer is the frame captured
\* when its FunctionLiteral was evaluated, not the frame of the caller: a free
\* variable of the body resolves along the captured chain, seeing what is
\* bound there at the time of the call and nothing that only the caller binds.
C7_CallsUseCapturedScope ==
    /\ \A a \in 1..Len(trace) :
          (trace[a].e = "apply" /\ IsObject(trace[a].val, FUNCTION_OBJ)) => CallFrame(a)
    /\ \A j \in Rets : trace[j].node.k = "Identifier" => Resolves(j)
    /\ \A j \in Rets : IsObject(trace[j].val, FUNCTION_OBJ)
                          /\ trace[j].node.k = "FunctionLiteral"
                          => trace[j].val.Env = trace[j].env

\* a body has looked up a name that only the frame of its caller binds, and
\* has not found it
C7_Witness ==
    \E j \in Rets :
       /\ trace[j].node.k = "Identifier"
       /\ isError(trace[j].val)
       /\ trace[j].env # 1
       /\ \E f \in 1..Len(frames) : trace[j].node.Name \in DOMAIN frames[f].store

\* the arguments of the call entered at c from the k-th on, the next event
\* being at: each is evaluated in the frame of the call; an Error ends the
\* call at once; after the last one applyFunction gets the callee and the values
RECURSIVE ArgsOrder(_, _, _, _, _)
ArgsOrder(c, k, at, callee, vals) ==
    LET args == trace[c].node.Arguments
        r == RetOf(at)
    IN  IF k > Len(args)
        THEN /\ at <= Len(trace)
             /\ trace[at].e = "apply"
             /\ trace[at].val = callee
             /\ trace[at].args = vals
        ELSE /\ Enters(at, c, args[k])
             /\ r # 0 =>
                  IF isError(trace[r].val)
                  THEN Returns(r + 1, c, trace[r].val)
                  ELSE ArgsOrder(c, k + 1, r + 1, callee, Append(vals, trace[r].val))

CallOrder(c) ==
    LET f == c + 1
        fr == RetOf(f)
    IN  /\ Enters(f, c, trace[c].node.Function)
        /\ fr # 0 =>
             IF isError(trace[fr].val)
             THEN Returns(fr + 1, c, trace[fr].val)
             ELSE ArgsOrder(c, 1, fr + 1, trace[fr].val, <<>>)

\* C8: a call evaluates the callee first and then the arguments left to right,
\* all in the frame of the caller; an Error from the callee or from an
\* argument is the result of the call at once: no later argument is evaluated
\* and neither a function body nor a builtin runs.
C8_CallEvaluatesInOrder == \A c \in EvalsOf("CallExpression") : CallOrder(c)

\* fn(p, q) { println("p") }(u, println("p")) has given the Error of u and
\* nothing was printed
C8_Witness ==
    /\ \E c \in EvalsOf("CallExpression") :
          /\ trace[c].node.Function = twoParams
          /\ trace[c].node.Arguments = <<undef, pr>>
    /\ isError(evaluated)
    /\ \A i \in 1..Len(trace) : trace[i].e \notin {"print", "apply", "builtin"}

\* v is the FALSE or the NULL instance
IsFalseOrNull(v) == IsObject(v, NULL_OBJ) \/ (IsObject(v, BOOLEAN_OBJ) /\ v.ref = "FALSE")

\* the branch block is evaluated right after the condition returned at cr,
\* and its value is the value of the if entered at i
TakesBranch(i, cr, block) ==
    /\ Enters(cr + 1, i, block)
    /\ RetOf(cr + 1) # 0 =>
          Returns(RetOf(cr + 1) + 1, i, trace[RetOf(cr + 1)].val)

IfOrder(i) ==
    LET node == trace[i].node
        cr == RetOf(i + 1)
    IN  /\ Enters(i + 1, i, node.Condition)
        /\ cr # 0 =>
             IF isError(trace[cr].val) THEN Returns(cr + 1, i, trace[cr].val)
             ELSE IF ~IsFalseOrNull(trace[cr].val) THEN TakesBranch(i, cr, node.Consequence)
             ELSE IF node.Alternative # NoNode THEN TakesBranch(i, cr, node.Alternative)
             ELSE Returns(cr + 1, i, NULL)

\* C9: an IfExpression evaluates its condition once and then at most one
\* branch: the consequence when the value is neither FALSE nor NULL (0 and ""
\* select the consequence), else the alternative when there is one, else the
\* result is NULL; an Error from the condition is returned, no branch evaluated.
C9_IfTakesOneBranch == \A i \in EvalsOf("IfExpression") : IfOrder(i)

\* if (0) { println("p") } else { println("q") } has printed p and not q
C9_Witness ==
    /\ \E i \in EvalsOf("IfExpression") :
          /\ trace[i].node.Condition = zero
          /\ trace[i].node.Alternative # NoNode
    /\ \E i \in 1..Len(trace) : trace[i].e = "print" /\ trace[i].val.Str = <<112>>
    /\ \A i \in 1..Len(trace) : trace[i].e = "print" => trace[i].val.Str # <<113>>

\* a and b are one object: the same address
Identical(a, b) ==
    /\ a.Type = b.Type
    /\ IF a.Type \in {BOOLEAN_OBJ, NULL_OBJ, BUILTIN_OBJ} THEN a.ref = b.ref ELSE a.id = b.id

BothOf(a, b, type) == a.Type = type /\ b.Type = type

InfixFallback(i) ==
    LET op == trace[i].node.Operator
        lr == RetOf(i + 1)
        rr == RetOf(lr + 1)
        left == trace[lr].val
        right == trace[rr].val
        text == left.Type \o " " \o op \o " " \o right.Type
    IN  (/\ lr # 0
         /\ ~isError(left)
         /\ rr # 0
         /\ ~isError(right)
         /\ ~IsNil(left)
         /\ ~IsNil(right)
         /\ ~BothOf(left, right, INTEGER_OBJ)
         /\ ~BothOf(left, right, STRING_OBJ))
        => /\ rr < Len(trace)
           /\ trace[rr + 1].e = "ret"
           /\ trace[rr + 1].node = trace[i].node
           /\ LET v == trace[rr + 1].val
              IN  CASE op = "==" -> v = IF Identical(left, right) THEN TRUE_ ELSE FALSE_
                    [] op = "!=" -> v = IF Identical(left, right) THEN FALSE_ ELSE TRUE_
                    [] OTHER -> /\ isError(v)
                                /\ v.Message = IF left.Type # right.Type
                                               THEN "type mismatch: " \o text
                                               ELSE "unknown operator: " \o text

\* every Boolean and Null that an evaluation returns is a shared instance
SharedInstances ==
    \A j \in Rets :
        LET v == trace[j].val
        IN  /\ IsObject(v, BOOLEAN_OBJ) => v = (IF v.Bool THEN TRUE_ ELSE FALSE_)
            /\ IsObject(v, NULL_OBJ) => v = NULL

\* C10: for two operands that are not both Integer and not both String, ==
\* and != give the Boolean of object identity (every Boolean and Null being a
\* shared instance), every other operator gives a "type mismatch" Error when
\* the types differ and an "unknown operator" Error when they are the same.
C10_InfixFallback ==
    /\ SharedInstances
    /\ \A i \in EvalsOf("InfixExpression") : InfixFallback(i)

\* true == 1 has given FALSE
C10_Witness ==
    /\ \E i \in EvalsOf("InfixExpression") :
          /\ trace[i].node.Operator = "=="
          /\ trace[i].node.Left = true_
          /\ trace[i].node.Right = one
    /\ evaluated = FALSE_

\* the Eval call entered at i is an index operation whose target gave left
\* and whose index gave an Integer: event lr is the return of the target,
\* event xr that of the index
IndexesByInteger(i, types) ==
    LET lr == RetOf(i + 1)
        xr == RetOf(lr + 1)
    IN  /\ lr # 0
        /\ xr # 0
        /\ EvalOf(xr) = lr + 1
        /\ trace[lr].val.Type \in types
        /\ IsObject(trace[xr].val, INTEGER_OBJ)

IndexBounds(i) ==
    LET lr == RetOf(i + 1)
        xr == RetOf(lr + 1)
        left == trace[lr].val
        v == trace[xr].val.Value
        length == IF left.Type = ARRAY_OBJ THEN left.Elements.len ELSE Len(left.Str)
        r == trace[xr + 1].val
    IN  /\ xr < Len(trace)
        /\ Returns(xr + 1, i, r)
        /\ IF 0 <= v /\ v < length
           THEN IF left.Type = ARRAY_OBJ
                THEN r = Elems(backing, left.Elements)[v + 1]
                ELSE IsObject(r, STRING_OBJ) /\ r.Str = <<left.Str[v + 1]>>
           ELSE /\ isError(r)
                /\ r.Message = "index out of bounds, index=" \o ToString(v)
                                   \o " len=" \o ToString(length)

\* C11: indexing an Array or a String with an Integer i returns element (byte)
\* i when 0 <= i < length, and an "index out of bounds" Error that reports i
\* and the length otherwise; the host never faults, also for a negative i
\* and for an empty Array or String.
C11_IndexInBoundsOrError ==
    \A i \in EvalsOf("IndexExpression") :
        IndexesByInteger(i, {ARRAY_OBJ, STRING_OBJ}) => IndexBounds(i)

\* the RangeExpression entered at i got two Integers
RangeMade(i) ==
    LET lr == RetOf(i + 1)
        rr == RetOf(lr + 1)
    IN  (/\ lr # 0
         /\ rr # 0
         /\ EvalOf(rr) = lr + 1
         /\ IsObject(trace[lr].val, INTEGER_OBJ)
         /\ IsObject(trace[rr].val, INTEGER_OBJ))
        => /\ rr < Len(trace)
           /\ Returns(rr + 1, i, trace[rr + 1].val)
           /\ IF trace[lr].val.Value > trace[rr].val.Value
              THEN isError(trace[rr + 1].val)
              ELSE /\ IsObject(trace[rr + 1].val, RANGE_OBJ)
                   /\ trace[rr + 1].val.From = trace[lr].val.Value
                   /\ trace[rr + 1].val.ToExclusive = trace[rr].val.Value

\* the index operation entered at i got an Array or a String and a Range
SliceBounds(i) ==
    LET lr == RetOf(i + 1)
        xr == RetOf(lr + 1)
        left == trace[lr].val
        from == trace[xr].val.From
        to == trace[xr].val.ToExclusive
        length == IF left.Type = ARRAY_OBJ THEN left.Elements.len ELSE Len(left.Str)
        r == trace[xr + 1].val
    IN  (/\ lr # 0
         /\ xr # 0
         /\ EvalOf(xr) = lr + 1
         /\ trace[lr].val.Type \in {ARRAY_OBJ, STRING_OBJ}
         /\ IsObject(trace[xr].val, RANGE_OBJ))
        => /\ xr < Len(trace)
           /\ Returns(xr + 1, i, r)
           /\ IF 0 <= from /\ from <= to /\ to <= length
              THEN /\ IsObject(r, left.Type)
                   /\ r.id # left.id
                   /\ IF left.Type = ARRAY_OBJ
                      THEN Elems(backing, r.Elements)
                              = SubSeq(Elems(backing, left.Elements), from + 1, to)
                      ELSE r.Str = SubSeq(left.Str, from + 1, to)
              ELSE /\ isError(r)
                   /\ r.Message = "range index out of bounds, index=" \o ToString(from)
                                      \o ":" \o ToString(to)
                                      \o " len=" \o ToString(length)

\* C12: every Range that exists has from <= toExclusive (a:b with a > b is an
\* Error and no Range); indexing an Array or a String with a Range gives a
\* new Array or String of exactly the elements from .. toExclusive-1 when
\* 0 <= from <= toExclusive <= length and a "range index out of bounds" Error
\* otherwise; slicing never faults the host.
C12_RangesAndSlices ==
    /\ \A j \in 1..Len(trace) :
          IsObject(trace[j].val, RANGE_OBJ) => trace[j].val.From <= trace[j].val.ToExclusive
    /\ \A i \in EvalsOf("RangeExpression") : RangeMade(i)
    /\ \A i \in EvalsOf("IndexExpression") : SliceBounds(i)

\* [1, "a"][1:2] has given a new Array that holds the String alone
C12_Witness ==
    /\ \E i \in EvalsOf("IndexExpression") :
          /\ trace[i].node.Index.k = "RangeExpression"
          /\ IsObject(trace[RetOf(i + 1)].val, ARRAY_OBJ)
          /\ trace[RetOf(i + 1)].val.Elements.len = 2
    /\ IsObject(evaluated, ARRAY_OBJ)
    /\ evaluated.Elements.len = 1
    /\ IsObject(Elems(backing, evaluated.Elements)[1], STRING_OBJ)

\* a and b are keys of the same type and value
SameKey(a, b) ==
    /\ a.Type = b.Type
    /\ a.Type = INTEGER_OBJ => a.Value = b.Value
    /\ a.Type = BOOLEAN_OBJ => a.Bool = b.Bool
    /\ a.Type = STRING_OBJ => a.Str = b.Str

IsIntegerOrBoolean(v) == IsObject(v, INTEGER_OBJ) \/ IsObject(v, BOOLEAN_OBJ)

\* the pairs of hash stored under a key of the type and value of key
StoredUnder(hash, key) ==
    {hk \in DOMAIN hash.Pairs : SameKey(hash.Pairs[hk].Key, key)}

\* the index operation entered at i looks up an Integer or a Boolean in a Hash
HashLookup(i) ==
    LET lr == RetOf(i + 1)
        xr == RetOf(lr + 1)
        hash == trace[lr].val
        key == trace[xr].val
        r == trace[xr + 1].val
    IN  (/\ lr # 0
         /\ xr # 0
         /\ EvalOf(xr) = lr + 1
         /\ IsObject(hash, HASH_OBJ)
         /\ IsIntegerOrBoolean(key))
        => /\ xr < Len(trace)
           /\ Returns(xr + 1, i, r)
           /\ IF StoredUnder(hash, key) = {} THEN r = NULL
              ELSE \E hk \in StoredUnder(hash, key) : r = hash.Pairs[hk].Value

\* the keys that the evaluation of the HashLiteral returning at j has stored
KeysStored(j) ==
    {trace[k].val : k \in {k \in Rets : /\ EvalOf(j) < k
                                          /\ k < j
                                          /\ trace[k].d = trace[j].d + 1
                                          /\ \E x \in 1..Len(trace[j].node.Pairs) :
                                                trace[k].node = trace[j].node.Pairs[x].Key}}

\* the Hash returned at j holds one pair for each type and value among its
\* Integer and Boolean keys
HashStored(j) ==
    LET hash == trace[j].val
    IN  /\ \A key \in KeysStored(j) :
              IsIntegerOrBoolean(key) => Cardinality(StoredUnder(hash, key)) = 1
        /\ \A hk \in DOMAIN hash.Pairs :
              \E key \in KeysStored(j) : SameKey(hash.Pairs[hk].Key, key)

\* C13: Integer and Boolean keys have the same HashKey exactly when they have
\* the same type and value: a Hash holds one pair for each such key, hash[k]
\* returns the value stored under the key of the type and value of k whatever
\* object k is, true and 1 (false and 0) do not retrieve each other, and a
\* key with no pair gives NULL.
C13_HashKeysByTypeAndValue ==
    /\ \A i \in EvalsOf("IndexExpression") : HashLookup(i)
    /\ \A j \in Rets : (trace[j].node.k = "HashLiteral" /\ IsObject(trace[j].val, HASH_OBJ))
                            => HashStored(j)

\* {1: "a", true: "b"}[true] has given "b"
C13_Witness ==
    /\ \E i \in EvalsOf("IndexExpression") :
          /\ IsObject(trace[RetOf(i + 1)].val, HASH_OBJ)
          /\ Cardinality(DOMAIN trace[RetOf(i + 1)].val.Pairs) = 2
          /\ trace[i].node.Left.Pairs[1].Key = one
          /\ trace[i].node.Index = true_
    /\ IsObject(evaluated, STRING_OBJ)
    /\ evaluated.Str = <<98>>

\* the sub-expressions of the pairs in the order of the source text
RECURSIVE Interleaved(_)
Interleaved(pairs) ==
    IF pairs = <<>> THEN <<>>
    ELSE <<Head(pairs).Key, Head(pairs).Val>> \o Interleaved(Tail(pairs))

\* the sub-expressions that the Eval call entered at i has evaluated, in order
RECURSIVE ChildrenFrom(_, _)
ChildrenFrom(i, k) ==
    IF k > Len(trace) \/ (trace[k].e = "ret" /\ trace[k].d = trace[i].d) THEN <<>>
    ELSE IF trace[k].e = "eval" /\ trace[k].d = trace[i].d + 1
    THEN <<trace[k].node>> \o ChildrenFrom(i, k + 1)
    ELSE ChildrenFrom(i, k + 1)

IsPrefix(a, b) == Len(a) <= Len(b) /\ a = SubSeq(b, 1, Len(a))

\* C19: the evaluation of a HashLiteral visits its pairs in one fixed order,
\* that of the source text, key before value, so that which Error is
\* returned and which value is stored under a repeated key is the same on
\* every evaluation.
C19_HashPairsInFixedOrder ==
    \A i \in EvalsOf("HashLiteral") :
        IsPrefix(ChildrenFrom(i, i + 1), Interleaved(trace[i].node.Pairs))

\* the cells of the backing array p just before event i
CellsAt(i, p) ==
    LET stores == {w \in 1..(i - 1) : trace[w].e = "store" /\ trace[w].env = p}
    IN  IF stores # {} THEN trace[Max(stores)].args ELSE backing0[p]

\* the elements the Array x holds just before event i
ElemsAt(i, x) ==
    SubSeq(CellsAt(i, x.Elements.ptr), x.Elements.off + 1, x.Elements.off + x.Elements.len)

\* the Arrays that exist just before event i: those an evaluation has
\* returned and those bound to a name
ArraysAt(i) ==
    {trace[j].val : j \in {j \in 1..(i - 1) : IsObject(trace[j].val, ARRAY_OBJ)}}
    \cup UNION {{before[f].store[n] : n \in {n \in DOMAIN before[f].store :
                                                IsObject(before[f].store[n], ARRAY_OBJ)}} :
                 f \in 1..Len(before)}

\* the call of push that runs at event b returns a new Array holding the
\* elements of its first argument followed by its second
PushResult(b) ==
    LET a == trace[b].args[1]
        v == trace[b].args[2]
        rets == {j \in Rets : j > b /\ trace[j].d = trace[b].d}
        r == trace[Min(rets)].val
    IN  /\ rets # {}
        /\ IsObject(r, ARRAY_OBJ)
        /\ \A x \in ArraysAt(b) : x.id # r.id
        /\ ElemsAt(Min(rets), r) = Append(ElemsAt(b, a), v)

\* C14: push(a, v) returns a new Array holding the elements of a followed by
\* v, and no Array that exists, whether bound to a name or obtained by a
\* slice or by an earlier push, holds other elements after a call of push or
\* a slice than before it.
C14_PushLeavesArraysUnchanged ==
    /\ \A b \in 1..Len(trace) :
          (/\ trace[b].e = "builtin"
           /\ trace[b].val = Builtin("push")
           /\ Len(trace[b].args) = 2
           /\ IsObject(trace[b].args[1], ARRAY_OBJ)) => PushResult(b)
    /\ \A w \in 1..Len(trace) : \A x \in ArraysAt(w) :
          ElemsAt(w, x) = ElemsAt(w + 1, x)
    /\ \A x \in ArraysAt(Len(trace) + 1) :
          Elems(backing, x.Elements) = ElemsAt(Len(trace) + 1, x)

\* let a = [1, 2, 3]; let b = a[0:1]; let c = push(b, 9); a has given the
\* three elements of a, b sharing the backing array of a with room after it
C14_Witness ==
    /\ \E b \in 1..Len(trace) :
          /\ trace[b].e = "builtin"
          /\ trace[b].val = Builtin("push")
          /\ Len(trace[b].args) = 2
          /\ IsObject(trace[b].args[1], ARRAY_OBJ)
          /\ trace[b].args[1].Elements.len < trace[b].args[1].Elements.cap
          /\ \E x \in ArraysAt(b) :
                /\ x.Elements.ptr = trace[b].args[1].Elements.ptr
                /\ x.Elements.len = 3
    /\ IsObject(evaluated, ARRAY_OBJ)
    /\ evaluated.Elements.len = 3
    /\ Elems(backing, evaluated.Elements)[2].Value = 2

\* the nodes directly below node
Children(node) ==
    CASE node.k \in {"Program", "BlockStatement"} -> node.Statements
      [] node.k = "LetStatement" -> <<node.Val>>
      [] node.k = "ReturnStatement" -> <<node.ReturnValue>>
      [] node.k = "ExpressionStatement" -> <<node.Expression>>
      [] node.k = "PrefixExpression" -> <<node.Right>>
      [] node.k \in {"InfixExpression", "RangeExpression"} -> <<node.Left, node.Right>>
      [] node.k = "IfExpression" ->
            IF node.Alternative = NoNode THEN <<node.Condition, node.Consequence>>
            ELSE <<node.Condition, node.Consequence, node.Alternative>>
      [] node.k = "FunctionLiteral" -> <<node.Body>>
      [] node.k = "CallExpression" -> <<node.Function>> \o node.Arguments
      [] node.k = "ArrayLiteral" -> node.Elements
      [] node.k = "IndexExpression" -> <<node.Left, node.Index>>
      [] node.k = "HashLiteral" -> Interleaved(node.Pairs)
      [] OTHER -> <<>>

\* the kinds of the nodes of the tree of node
RECURSIVE Kinds(_)
Kinds(node) ==
    {node.k} \cup UNION {Kinds(Children(node)[i]) : i \in 1..Len(Children(node))}

\* the parser has a parsing function for every node of the Program: it has
\* none that makes a RangeExpression or a HashLiteral
Parsed(node) == Kinds(node) \cap {"RangeExpression", "HashLiteral"} = {}

\* the evaluation ran out of stack: a call of Eval found no room
StackExhausted == \E i \in Evals : trace[i].d > MaxDepth

\* the evaluation divided an Integer by the Integer 0: the fault follows the
\* return of the right operand of a division
DividedByZero ==
    LET n == Len(trace)
        i == Parent(EvalOf(n - 1))
    IN  /\ n > 2
        /\ trace[n].e = "panic"
        /\ trace[n - 1].e = "ret"
        /\ IsObject(trace[n - 1].val, INTEGER_OBJ)
        /\ trace[n - 1].val.Value = 0
        /\ i # 0
        /\ trace[i].node.k = "InfixExpression"
        /\ trace[i].node.Operator = "/"
        /\ RetOf(i + 1) # 0
        /\ RetOf(i + 1) < EvalOf(n - 1)
        /\ IsObject(trace[RetOf(i + 1)].val, INTEGER_OBJ)

\* C20: the evaluation of a Program that divides by no zero and does not
\* recurse without bound never faults the host, also when a Function is
\* called with fewer or more arguments than parameters and when the absent
\* result of a side-effect-only construct is used as an operand, an
\* argument or an index target.
C20_NeverFaultsTheHost ==
    (Parsed(program) /\ IsPanic(evaluated)) => (StackExhausted \/ DividedByZero)

(***************************************************************************)
(* token, lexer: what the Parser reads                                     *)
(***************************************************************************)
\* token.Token{Type, Literal}
Token(type, literal) == [Type |-> type, Literal |-> literal]

\* l.NextToken(): the i-th token of the text; after the last one the Lexer
\* answers EOF, however often it is asked
NextToken(toks, i) == IF i <= Len(toks) THEN toks[i] ELSE Token("EOF", "")

(***************************************************************************)
(* parser/parser.go                                                        *)
(***************************************************************************)
LOWEST == 1
EQUALS == 2
LESSGREATER == 3
SUM == 4
PRODUCT == 5
PREFIX == 6
CALL == 7
INDEX == 8

precedences ==
    "EQ" :> EQUALS @@ "NOT_EQ" :> EQUALS @@
    "LT" :> LESSGREATER @@ "GT" :> LESSGREATER @@
    "PLUS" :> SUM @@ "MINUS" :> SUM @@
    "SLASH" :> PRODUCT @@ "ASTERISK" :> PRODUCT @@
    "LPAREN" :> CALL @@
    "LBRCKT" :> INDEX

\* New: the handler tables, and the first two tokens read. A Parser is
\*   toks    the tokens its Lexer yields
\*   pos     currToken is the pos-th of them and peekToken the next
\*   errors  the diagnostics so far
\*   tr      the calls of expectPeek, the returns of their callers and the
\*           iterations of the loops
prefixParseFns ==
    "IDENT" :> "parseIdentifier" @@
    "INT" :> "parseIntegerLiteral" @@
    "STRING" :> "parseStringLiteral" @@
    "BANG" :> "parsePrefixExpression" @@
    "MINUS" :> "parsePrefixExpression" @@
    "TRUE" :> "parseBoolean" @@
    "FALSE" :> "parseBoolean" @@
    "LPAREN" :> "parseGroupedExpression" @@
    "IF" :> "parseIfExpression" @@
    "FUNCTION" :> "parseFunctionLiteral" @@
    "LBRCKT" :> "parseArrayLiteral"

infixParseFns ==
    "PLUS" :> "parseInfixExpression" @@
    "MINUS" :> "parseInfixExpression" @@
    "SLASH" :> "parseInfixExpression" @@
    "ASTERISK" :> "parseInfixExpression" @@
    "EQ" :> "parseInfixExpression" @@
    "NOT_EQ" :> "parseInfixExpression" @@
    "LT" :> "parseInfixExpression" @@
    "GT" :> "parseInfixExpression" @@
    "LPAREN" :> "parseCallExpression" @@
    "LBRCKT" :> "parseIndexExpression"

New(toks) == [toks |-> toks, pos |-> 1, errors |-> <<>>, tr |-> <<>>]

currToken(p) == NextToken(p.toks, p.pos)
peekToken(p) == NextToken(p.toks, p.pos + 1)

nextToken(p) == [p EXCEPT !.pos = @ + 1]

currTokenIs(p, t) == currToken(p).Type = t
peekTokenIs(p, t) == peekToken(p).Type = t

peekPrecedence(p) ==
    IF peekToken(p).Type \in DOMAIN precedences
    THEN precedences[peekToken(p).Type]
    ELSE LOWEST

currPrecedence(p) ==
    IF currToken(p).Type \in DOMAIN precedences
    THEN precedences[currToken(p).Type]
    ELSE LOWEST

appendPeekError(p, expected) ==
    [p EXCEPT !.errors = Append(@, <<"expected next token to be %s, got %s instead",
                                     expected, peekToken(p).Type>>)]

\* the mutant of noPrefixParseFnError: nothing is recorded
noPrefixParseFnErrorSilent(p, t) == p

noPrefixParseFnError(p, t) ==
    [p EXCEPT !.errors = Append(@, <<"no prefix parse function for %s found", t>>)]

\* what a call of expectPeek did: the window and the number of diagnostics
\* when it was called and when it returned
Expected(t, ok, p, q) ==
    [e |-> "expectPeek", t |-> t, ok |-> ok, fn |-> "",
     curr0 |-> p.pos, peek0 |-> p.pos + 1, errors0 |-> Len(p.errors),
     curr1 |-> q.pos, peek1 |-> q.pos + 1, errors1 |-> Len(q.errors),
     absent |-> FALSE]

\* a caller of expectPeek returned: absent tells whether it returned nil
Returned(fn, absent, p) ==
    [e |-> "return", t |-> "", ok |-> ~absent, fn |-> fn,
     curr0 |-> p.pos, peek0 |-> p.pos + 1, errors0 |-> Len(p.errors),
     curr1 |-> p.pos, peek1 |-> p.pos + 1, errors1 |-> Len(p.errors),
     absent |-> absent]

\* an iteration of a loop of fn ran: p when its condition was found true, q
\* when its body was through; t is the current token it began at
Iterated(fn, p, q) ==
    [e |-> "iteration", t |-> NextToken(p.toks, p.pos).Type, ok |-> TRUE, fn |-> fn,
     curr0 |-> p.pos, peek0 |-> p.pos + 1, errors0 |-> Len(p.errors),
     curr1 |-> q.pos, peek1 |-> q.pos + 1, errors1 |-> Len(q.errors),
     absent |-> FALSE]

\* the Parser at the end of that iteration
Iterate(fn, p, q) == [q EXCEPT !.tr = Append(@, Iterated(fn, p, q))]

\* the mutant of expectPeek: the token that is not the expected one is
\* consumed all the same
expectPeekConsuming(p, t) ==
    IF peekTokenIs(p, t)
    THEN LET q == nextToken(p)
         IN  [ok |-> TRUE, p |-> [q EXCEPT !.tr = Append(@, Expected(t, TRUE, p, q))]]
    ELSE LET q == nextToken(appendPeekError(p, t))
         IN  [ok |-> FALSE, p |-> [q EXCEPT !.tr = Append(@, Expected(t, FALSE, p, q))]]

expectPeek(p, t) ==
    IF peekTokenIs(p, t)
    THEN LET q == nextToken(p)
         IN  [ok |-> TRUE, p |-> [q EXCEPT !.tr = Append(@, Expected(t, TRUE, p, q))]]
    ELSE LET q == appendPeekError(p, t)
         IN  [ok |-> FALSE, p |-> [q EXCEPT !.tr = Append(@, Expected(t, FALSE, p, q))]]

\* a parse function returns its node and leaves the Parser as p
Yield(node, p) == [node |-> node, p |-> p]

\* the return of a function that calls expectPeek, or a return of nil
YieldFrom(fn, node, p) ==
    [node |-> node,
     p |-> [p EXCEPT !.tr = Append(@, Returned(fn, node = NoNode, p))]]

\* the return of a function that yields a list and calls expectPeek; a nil
\* slice has no elements, nil tells it from an empty one
ListFrom(fn, list, nil, p) ==
    [list |-> list, nil |-> nil,
     p |-> [p EXCEPT !.tr = Append(@, Returned(fn, nil, p))]]

\* a nil pointer of a statement type: parseStatement hands it on as an
\* ast.Statement, and an interface that holds a nil pointer is not nil
NilStatement(type) == [k |-> "nil", of |-> type]

\* strconv.ParseInt(s, 0, 64) on a Literal of digits. Numbers are written
\* with their decimal digits, the least significant first (no digit is 0)
RECURSIVE MulAdd(_, _, _)
MulAdd(n, base, carry) ==
    IF n = <<>>
    THEN IF carry = 0 THEN <<>>
         ELSE <<carry % 10>> \o MulAdd(<<>>, base, carry \div 10)
    ELSE LET v == Head(n) * base + carry
         IN  <<v % 10>> \o MulAdd(Tail(n), base, v \div 10)

\* n*base + d for every digit d of s in turn
RECURSIVE Accumulate(_, _, _)
Accumulate(s, base, n) ==
    IF s = <<>> THEN n
    ELSE Accumulate(Tail(s), base, MulAdd(n, base, Head(s)))

RECURSIVE Less(_, _)
Less(m, n) ==
    IF Len(m) # Len(n) THEN Len(m) < Len(n)
    ELSE IF m = <<>> THEN FALSE
    ELSE IF m[Len(m)] # n[Len(n)] THEN m[Len(m)] < n[Len(n)]
    ELSE Less(SubSeq(m, 1, Len(m) - 1), SubSeq(n, 1, Len(n) - 1))

\* 1 << 63 = 9223372036854775808
Cutoff == <<8, 0, 8, 5, 7, 7, 4, 5, 8, 6, 3, 0, 2, 7, 3, 3, 2, 2, 9>>

RECURSIVE IntOf(_)
IntOf(n) == IF n = <<>> THEN 0 ELSE Head(n) + 10 * IntOf(Tail(n))

\* an int64: the integer, or its digits when it has more than nine of them
Int64(n) == IF Len(n) <= 9 THEN IntOf(n) ELSE [digits |-> n]

\* the value of each digit character
DigitOf ==
    "0" :> 0 @@ "1" :> 1 @@ "2" :> 2 @@ "3" :> 3 @@ "4" :> 4 @@
    "5" :> 5 @@ "6" :> 6 @@ "7" :> 7 @@ "8" :> 8 @@ "9" :> 9

RECURSIVE Digits(_)
Digits(s) ==
    IF s = "" THEN <<>>
    ELSE <<DigitOf[SubSeq(s, 1, 1)]>> \o Digits(SubSeq(s, 2, Len(s)))

\* base 0: a leading 0 announces an octal number
ParseInt(s) ==
    LET base == IF Head(Digits(s)) = 0 THEN 8 ELSE 10
        digits == IF Head(Digits(s)) = 0 THEN Tail(Digits(s)) ELSE Digits(s)
        n == Accumulate(digits, base, <<>>)
    IN  IF \E i \in 1..Len(digits) : digits[i] >= base
        THEN [value |-> 0, err |-> "invalid syntax"]
        ELSE IF ~Less(n, Cutoff)
        THEN [value |-> 0, err |-> "value out of range"]
        ELSE [value |-> Int64(n), err |-> ""]

\* r := call; ...: the value of a call under a name, the call made once
Bind(r, Rest(_)) == Rest(r)

RECURSIVE parseExpression(_, _)
RECURSIVE parseStatement(_)
RECURSIVE parseBlockStatement(_)

parseIdentifier(p) == Yield(Identifier(currToken(p).Literal), p)

parseIntegerLiteral(p) ==
    Bind(ParseInt(currToken(p).Literal), LAMBDA r :
      IF r.err # ""
      THEN YieldFrom("parseIntegerLiteral", NoNode,
                 [p EXCEPT !.errors = Append(@, <<"could not parse %q as integer",
                                                  currToken(p).Literal>>)])
      ELSE Yield(IntegerLiteral(r.value), p))

parseStringLiteral(p) == Yield(StringLiteral(currToken(p).Literal), p)

parseBoolean(p) == Yield(Boolean(currTokenIs(p, "TRUE")), p)

\* the loop of parseExpressionList: one more expression after each comma
RECURSIVE parseExpressionListRest(_, _)
parseExpressionListRest(p, list) ==
    IF peekTokenIs(p, "COMMA")
    THEN Bind(parseExpression(nextToken(nextToken(p)), LOWEST), LAMBDA r :
           parseExpressionListRest(Iterate("parseExpressionList", p, r.p),
                                   Append(list, r.node)))
    ELSE [list |-> list, p |-> p]

parseExpressionList(p, end) ==
    IF peekTokenIs(p, end)
    THEN ListFrom("parseExpressionList", <<>>, FALSE, nextToken(p))
    ELSE Bind(parseExpression(nextToken(p), LOWEST), LAMBDA first :
         Bind(parseExpressionListRest(first.p, <<first.node>>), LAMBDA r :
         Bind(expectPeek(r.p, end), LAMBDA e :
           IF ~e.ok
           THEN ListFrom("parseExpressionList", <<>>, TRUE, e.p)
           ELSE ListFrom("parseExpressionList", r.list, FALSE, e.p))))

parseArrayLiteral(p) ==
    Bind(parseExpressionList(p, "RBRCKT"), LAMBDA r :
      Yield(ArrayLiteral(r.list), r.p))

parsePrefixExpression(p) ==
    Bind(parseExpression(nextToken(p), PREFIX), LAMBDA r :
      Yield(PrefixExpression(currToken(p).Literal, r.node), r.p))

\* the mutant of parseInfixExpression: the right operand is parsed one level
\* lower, so that an operator of the same level goes into it
parseInfixExpressionLower(p, left) ==
    Bind(parseExpression(nextToken(p), currPrecedence(p) - 1), LAMBDA r :
      Yield(InfixExpression(left, currToken(p).Literal, r.node), r.p))

parseInfixExpression(p, left) ==
    Bind(parseExpression(nextToken(p), currPrecedence(p)), LAMBDA r :
      Yield(InfixExpression(left, currToken(p).Literal, r.node), r.p))

parseCallExpression(p, function) ==
    Bind(parseExpressionList(p, "RPAREN"), LAMBDA r :
      Yield(CallExpression(function, r.list), r.p))

parseIndexExpression(p, array) ==
    Bind(parseExpression(nextToken(p), LOWEST), LAMBDA r :
    Bind(expectPeek(r.p, "RBRCKT"), LAMBDA e :
      IF ~e.ok
      THEN YieldFrom("parseIndexExpression", NoNode, e.p)
      ELSE YieldFrom("parseIndexExpression", IndexExpression(array, r.node), e.p)))

parseGroupedExpression(p) ==
    Bind(parseExpression(nextToken(p), LOWEST), LAMBDA r :
    Bind(expectPeek(r.p, "RPAREN"), LAMBDA e :
      IF ~e.ok
      THEN YieldFrom("parseGroupedExpression", NoNode, e.p)
      ELSE YieldFrom("parseGroupedExpression", r.node, e.p)))

\* the else part of parseIfExpression, cons being the block parsed before it
parseElse(cond, cons) ==
    IF peekTokenIs(cons.p, "ELSE")
    THEN Bind(expectPeek(nextToken(cons.p), "LBRACE"), LAMBDA e4 :
           IF ~e4.ok THEN YieldFrom("parseIfExpression", NoNode, e4.p)
           ELSE Bind(parseBlockStatement(e4.p), LAMBDA alt :
                  YieldFrom("parseIfExpression",
                            IfExpression(cond.node, cons.node, alt.node), alt.p)))
    ELSE YieldFrom("parseIfExpression",
                   IfExpression(cond.node, cons.node, NoNode), cons.p)

parseIfExpression(p) ==
    Bind(expectPeek(p, "LPAREN"), LAMBDA e1 :
      IF ~e1.ok THEN YieldFrom("parseIfExpression", NoNode, e1.p)
      ELSE Bind(parseExpression(nextToken(e1.p), LOWEST), LAMBDA cond :
           Bind(expectPeek(cond.p, "RPAREN"), LAMBDA e2 :
             IF ~e2.ok THEN YieldFrom("parseIfExpression", NoNode, e2.p)
             ELSE Bind(expectPeek(e2.p, "LBRACE"), LAMBDA e3 :
                    IF ~e3.ok THEN YieldFrom("parseIfExpression", NoNode, e3.p)
                    ELSE Bind(parseBlockStatement(e3.p), LAMBDA cons :
                           parseElse(cond, cons))))))

\* the loop of parseFunctionParams: one more name after each comma
RECURSIVE parseFunctionParamsRest(_, _)
parseFunctionParamsRest(p, params) ==
    IF peekTokenIs(p, "COMMA")
    THEN Bind(Iterate("parseFunctionParams", p, nextToken(nextToken(p))), LAMBDA q :
           parseFunctionParamsRest(q, Append(params, currToken(q).Literal)))
    ELSE [list |-> params, p |-> p]

parseFunctionParams(p) ==
    IF peekTokenIs(p, "RPAREN")
    THEN ListFrom("parseFunctionParams", <<>>, TRUE, nextToken(p))
    ELSE Bind(nextToken(p), LAMBDA q :
         Bind(parseFunctionParamsRest(q, <<currToken(q).Literal>>), LAMBDA r :
         Bind(expectPeek(r.p, "RPAREN"), LAMBDA e :
           IF ~e.ok
           THEN ListFrom("parseFunctionParams", <<>>, TRUE, e.p)
           ELSE ListFrom("parseFunctionParams", r.list, FALSE, e.p))))

parseFunctionLiteral(p) ==
    Bind(expectPeek(p, "LPAREN"), LAMBDA e1 :
      IF ~e1.ok THEN YieldFrom("parseFunctionLiteral", NoNode, e1.p)
      ELSE Bind(parseFunctionParams(e1.p), LAMBDA params :
           Bind(expectPeek(params.p, "LBRACE"), LAMBDA e2 :
             IF ~e2.ok THEN YieldFrom("parseFunctionLiteral", NoNode, e2.p)
             ELSE Bind(parseBlockStatement(e2.p), LAMBDA body :
                    YieldFrom("parseFunctionLiteral",
                              FunctionLiteral(params.list, body.node), body.p)))))

\* prefix(): the handler New registered under that name
prefixParse(fn, p) ==
    CASE fn = "parseIdentifier" -> parseIdentifier(p)
      [] fn = "parseIntegerLiteral" -> parseIntegerLiteral(p)
      [] fn = "parseStringLiteral" -> parseStringLiteral(p)
      [] fn = "parsePrefixExpression" -> parsePrefixExpression(p)
      [] fn = "parseBoolean" -> parseBoolean(p)
      [] fn = "parseGroupedExpression" -> parseGroupedExpression(p)
      [] fn = "parseIfExpression" -> parseIfExpression(p)
      [] fn = "parseFunctionLiteral" -> parseFunctionLiteral(p)
      [] fn = "parseArrayLiteral" -> parseArrayLiteral(p)

\* infix(leftExp)
infixParse(fn, p, left) ==
    CASE fn = "parseInfixExpression" -> parseInfixExpression(p, left)
      [] fn = "parseCallExpression" -> parseCallExpression(p, left)
      [] fn = "parseIndexExpression" -> parseIndexExpression(p, left)

\* the loop of parseExpression: while the next token binds tighter than
\* precedence, it takes what was parsed so far as its left operand
RECURSIVE parseExpressionLoop(_, _, _)
parseExpressionLoop(p, precedence, leftExp) ==
    IF ~peekTokenIs(p, "SEMICOLON") /\ precedence < peekPrecedence(p)
    THEN IF peekToken(p).Type \notin DOMAIN infixParseFns
         THEN Yield(leftExp, p)
         ELSE Bind(infixParse(infixParseFns[peekToken(p).Type], nextToken(p), leftExp),
                   LAMBDA r : parseExpressionLoop(Iterate("parseExpression", p, r.p),
                                                  precedence, r.node))
    ELSE Yield(leftExp, p)

parseExpression(p, precedence) ==
    IF currToken(p).Type \notin DOMAIN prefixParseFns
    THEN YieldFrom("parseExpression", NoNode,
                   noPrefixParseFnError(p, currToken(p).Type))
    ELSE Bind(prefixParse(prefixParseFns[currToken(p).Type], p), LAMBDA r :
           parseExpressionLoop(r.p, precedence, r.node))

\* the optional semicolon that ends a statement
skipSemicolon(p) == IF peekTokenIs(p, "SEMICOLON") THEN nextToken(p) ELSE p

parseLetStatement(p) ==
    Bind(expectPeek(p, "IDENT"), LAMBDA e1 :
      IF ~e1.ok THEN YieldFrom("parseLetStatement", NoNode, e1.p)
      ELSE Bind(expectPeek(e1.p, "ASSIGN"), LAMBDA e2 :
             IF ~e2.ok THEN YieldFrom("parseLetStatement", NoNode, e2.p)
             ELSE Bind(parseExpression(nextToken(e2.p), LOWEST), LAMBDA r :
                    YieldFrom("parseLetStatement",
                              LetStatement(currToken(e1.p).Literal, r.node),
                              skipSemicolon(r.p)))))

parseReturnStatement(p) ==
    Bind(parseExpression(nextToken(p), LOWEST), LAMBDA r :
      Yield(ReturnStatement(r.node), skipSemicolon(r.p)))

parseExpressionStatement(p) ==
    Bind(parseExpression(p, LOWEST), LAMBDA r :
      IF r.node = NoNode THEN YieldFrom("parseExpressionStatement", NoNode, r.p)
      ELSE Yield(ExpressionStatement(r.node), skipSemicolon(r.p)))

\* a statement parser's pointer as an ast.Statement: a nil pointer comes out
\* as a Statement that is not nil
AsStatement(r, type) == IF r.node = NoNode THEN Yield(NilStatement(type), r.p) ELSE r

parseStatement(p) ==
    CASE currToken(p).Type = "LET" ->
           AsStatement(parseLetStatement(p), "*ast.LetStatement")
      [] currToken(p).Type = "RETURN" -> parseReturnStatement(p)
      [] OTHER ->
           AsStatement(parseExpressionStatement(p), "*ast.ExpressionStatement")

\* the loop of parseBlockStatement: statements up to the closing brace or
\* the end of the text
RECURSIVE parseBlockStatements(_, _)
\* the mutant of parseBlockStatements: the end of the text stops the loop one
\* token late, when the Lexer has answered EOF a second time
parseBlockStatementsLate(p, stmts) ==
    IF ~currTokenIs(p, "RBRACE") /\ ~(currTokenIs(p, "EOF") /\ p.pos > Len(p.toks))
    THEN Bind(parseStatement(p), LAMBDA r :
           parseBlockStatements(Iterate("parseBlockStatement", p, nextToken(r.p)),
               IF r.node # NoNode THEN Append(stmts, r.node) ELSE stmts))
    ELSE [list |-> stmts, p |-> p]

parseBlockStatements(p, stmts) ==
    IF ~currTokenIs(p, "RBRACE") /\ ~currTokenIs(p, "EOF")
    THEN Bind(parseStatement(p), LAMBDA r :
           parseBlockStatements(Iterate("parseBlockStatement", p, nextToken(r.p)),
               IF r.node # NoNode THEN Append(stmts, r.node) ELSE stmts))
    ELSE [list |-> stmts, p |-> p]

parseBlockStatement(p) ==
    Bind(parseBlockStatements(nextToken(p), <<>>), LAMBDA r :
      Yield(BlockStatement(r.list), r.p))

\* the loop of ParseProgram: statements up to the end of the text
RECURSIVE ParseStatements(_, _)
ParseStatements(p, stmts) ==
    IF ~currTokenIs(p, "EOF")
    THEN Bind(parseStatement(p), LAMBDA r :
           ParseStatements(Iterate("ParseProgram", p, nextToken(r.p)),
               IF r.node # NoNode THEN Append(stmts, r.node) ELSE stmts))
    ELSE [list |-> stmts, p |-> p]

ParseProgram(p) ==
    Bind(ParseStatements(p, <<>>), LAMBDA r :
      Yield(Program(r.list), r.p))

(***************************************************************************)
(* lexer: the tokens of a text that is given word by word                  *)
(***************************************************************************)
TokenTypes ==
    "=" :> "ASSIGN" @@ "+" :> "PLUS" @@ "-" :> "MINUS" @@ "!" :> "BANG" @@
    "*" :> "ASTERISK" @@ "/" :> "SLASH" @@ "<" :> "LT" @@ ">" :> "GT" @@
    "==" :> "EQ" @@ "!=" :> "NOT_EQ" @@ "," :> "COMMA" @@ ";" :> "SEMICOLON" @@
    ":" :> "COLON" @@ "(" :> "LPAREN" @@ ")" :> "RPAREN" @@ "{" :> "LBRACE" @@
    "}" :> "RBRACE" @@ "[" :> "LBRCKT" @@ "]" :> "RBRCKT" @@
    "fn" :> "FUNCTION" @@ "let" :> "LET" @@ "true" :> "TRUE" @@
    "false" :> "FALSE" @@ "if" :> "IF" @@ "else" :> "ELSE" @@
    "return" :> "RETURN"

\* the token of one word: a reserved word or an operator, a number, a
\* string between its quotes, or else an identifier
LookupToken(word) ==
    CASE word \in DOMAIN TokenTypes -> Token(TokenTypes[word], word)
      [] SubSeq(word, 1, 1) \in DOMAIN DigitOf -> Token("INT", word)
      [] SubSeq(word, 1, 1) = "'" -> Token("STRING", SubSeq(word, 2, Len(word) - 1))
      [] OTHER -> Token("IDENT", word)

Lex(words) == [i \in 1..Len(words) |-> LookupToken(words[i])] \o <<Token("EOF", "")>>

(***************************************************************************)
(* The texts the Parser is run on                                          *)
(***************************************************************************)
MaxOperators == 3

\* form says how the text was made, first is the number of words of its
\* first statement
Source(form, words, first) == [form |-> form, words |-> words, first |-> first]

\* expressions without parentheses: operands joined by binary operators, one
\* of the operands with a prefix operator, a call, an index, or two of these
BinaryOperators == {"+", "-", "*", "==", "<"}
Operands == <<"a", "b", "c", "d", "e">>
Decorations == {"-", "()", "[]", "-()", "-[]"}

Operand(name, decoration) ==
    CASE decoration = "" -> <<name>>
      [] decoration = "-" -> <<"-", name>>
      [] decoration = "()" -> <<name, "(", "x", ")">>
      [] decoration = "[]" -> <<name, "[", "0", "]">>
      [] decoration = "-()" -> <<"-", name, "(", "x", ")">>
      [] decoration = "-[]" -> <<"-", name, "[", "0", "]">>

RECURSIVE Operation(_, _, _)
Operation(ops, decorations, i) ==
    IF i > Len(ops) THEN Operand(Operands[i], decorations[i])
    ELSE Operand(Operands[i], decorations[i]) \o <<ops[i]>> \o Operation(ops, decorations, i + 1)

OneDecorated(n) ==
    {[i \in 1..n |-> ""]}
    \cup {[i \in 1..n |-> IF i = j THEN d ELSE ""] : j \in 1..n, d \in Decorations}

ExpressionSources(operators) ==
    UNION {{Source("expression", Operation(ops, decorations, 1), 0) :
              ops \in [1..n -> BinaryOperators], decorations \in OneDecorated(n + 1)} :
           n \in 0..operators}

\* statements the grammar accepts
WellFormed ==
    {<<"let", "y", "=", "1", ";">>, <<"y", ";">>, <<"return", "1", ";">>,
     <<"(", "1", ")", ";">>}

\* the statement each of them is
StatementOf(words) ==
    CASE words = <<"let", "y", "=", "1", ";">> -> LetStatement("y", IntegerLiteral(1))
      [] words = <<"y", ";">> -> ExpressionStatement(Identifier("y"))
      [] words = <<"return", "1", ";">> -> ReturnStatement(IntegerLiteral(1))
      [] words = <<"(", "1", ")", ";">> -> ExpressionStatement(IntegerLiteral(1))

\* statements that lack one token the parser expects
Malformed ==
    {<<"let", "x", "5", ";">>, <<"let", "=", "5", ";">>,
     <<"(", "1", "+", "2", ";">>, <<"a", "[", "1", ";">>,
     <<"f", "(", "1", ";">>, <<"[", "1", ";">>,
     <<"if", "x", ")", "{", "1", "}", ";">>,
     <<"if", "(", "x", "{", "1", "}", ";">>,
     <<"if", "(", "x", ")", "1", "}", ";">>,
     <<"if", "(", "x", ")", "{", "1", "}", "else", "2", "}", ";">>,
     <<"fn", "x", ")", "{", "1", "}", ";">>,
     <<"fn", "(", "x", "{", "1", "}", ";">>,
     <<"fn", "(", "x", ")", "1", "}", ";">>}

MalformedSources ==
    {Source("malformed", m, Len(m)) : m \in Malformed}
    \cup {Source("malformed, malformed", m \o n, Len(m)) : m \in Malformed, n \in Malformed}
    \cup {Source("malformed, well-formed", m \o w, Len(m)) : m \in Malformed, w \in WellFormed}

\* the range form and the hash form
RangeSources ==
    {Source("range", w, 0) : w \in {<<"1", ":", "5">>, <<"a", ":", "b">>,
                                    <<"a", "[", "1", ":", "2", "]">>}}

HashSources ==
    {Source("hash", w, 0) : w \in {<<"{", "1", ":", "2", "}">>,
                                   <<"{", "a", ":", "1", ",", "b", ":", "2", "}">>}}

\* integer literals
IntegerTexts ==
    {"0", "5", "10", "42", "123456789", "007", "010", "08", "0777",
     "9223372036854775806", "9223372036854775807", "9223372036854775808",
     "9223372036854775809", "10000000000000000000", "99999999999999999999"}

IntegerSources == {Source("integer", <<t>>, 0) : t \in IntegerTexts}

\* texts that use the rest of the grammar
OtherSources ==
    {Source("other", w, 0) :
       w \in {<<"if", "(", "x", "<", "1", ")", "{", "x", "}", "else", "{", "y", "}">>,
              <<"if", "(", "true", ")", "{", "return", "1", ";", "}">>,
              <<"let", "f", "=", "fn", "(", "x", ",", "y", ")", "{", "x", "+", "y", "}", ";",
                "f", "(", "1", ",", "2", ")">>,
              <<"fn", "(", ")", "{", "}">>,
              <<"[", "1", ",", "'s'", ",", "!", "false", "]">>,
              <<"[", "]", ";", "f", "(", ")">>,
              <<"(", "a", "+", "b", ")", "*", "c">>,
              <<"a", "/", "b", "!=", "c", ">", "d">>}}

MaxTokens == 3

Alphabet == {"a", "1", "(", ")", "{", "}", ",", "+", "-", ";", "if", "fn"}

\* every text of up to so many of these words, well-formed or not
StreamSources(tokens) ==
    UNION {{Source("stream", w, 0) : w \in [1..n -> Alphabet]} : n \in 0..tokens}

\* texts that nest blocks, calls, lists and operators
Nested ==
    {<<"if", "(", "x", "<", "1", ")", "{", "x", "}", "else", "{", "y", "}">>,
     <<"let", "f", "=", "fn", "(", "x", ",", "y", ")", "{", "x", ";", "y", "}", ";">>,
     <<"fn", "(", ")", "{", "if", "(", "a", ")", "{", "return", "1", ";", "}", "}">>,
     <<"f", "(", "g", "(", "a", ",", "-", "b", ")", ",", "[", "c", ",", "d", "]", ")">>}

\* each of them cut short after any number of its words: blocks, calls and
\* lists left unclosed, operators left without their operand
TruncatedSources ==
    UNION {{Source("truncated", SubSeq(w, 1, n), 0) : n \in 0..Len(w)} : w \in Nested}

Sources(operators, tokens) ==
    ExpressionSources(operators) \cup MalformedSources \cup RangeSources \cup HashSources
    \cup IntegerSources \cup OtherSources \cup StreamSources(tokens) \cup TruncatedSources

(***************************************************************************)
(* Parsing a text: what repl.Start does with each line before it evaluates *)
(***************************************************************************)
InitParse ==
    /\ frames = <<>>
    /\ last = NoOp
    /\ refs = 0
    /\ lines = 0
    /\ program = NoNode
    /\ before = <<>>
    /\ evaluated = Nil
    /\ trace = <<>>
    /\ backing = <<>>
    /\ backing0 = <<>>
    /\ source = NoSource
    /\ parsed = NoNode
    /\ errors = <<>>
    /\ steps = <<>>

\* p := parser.New(lexer.New(line)); program := p.ParseProgram(): a Parser
\* parses the one text its Lexer was made for
ParseLine ==
    /\ source = NoSource
    /\ \E src \in Sources(MaxOperators, MaxTokens) :
         \E r \in {ParseProgram(New(Lex(src.words)))} :
             /\ source' = src
             /\ parsed' = r.node
             /\ errors' = r.p.errors
             /\ steps' = r.p.tr
    /\ UNCHANGED <<frames, last, refs, lines, program, before, evaluated, trace,
                   backing, backing0>>

NextParse == ParseLine

SpecParse == InitParse /\ [][NextParse]_vars

(***************************************************************************)
(* The grouping of operators                                               *)
(***************************************************************************)
\* the precedence level of each binary operator: the higher binds tighter
BindingLevel ==
    "==" :> 1 @@ "!=" :> 1 @@ "<" :> 2 @@ ">" :> 2 @@
    "+" :> 3 @@ "-" :> 3 @@ "*" :> 4 @@ "/" :> 4

\* the words of the text of an expression, read off its tree from left to
\* right (the only number in these texts is 0)
RECURSIVE Words(_)
RECURSIVE WordsOfList(_)
Words(e) ==
    CASE e.k = "Identifier" -> <<e.Name>>
      [] e.k = "IntegerLiteral" -> <<IF e.Value = 0 THEN "0" ELSE "?">>
      [] e.k = "PrefixExpression" -> <<e.Operator>> \o Words(e.Right)
      [] e.k = "InfixExpression" -> Words(e.Left) \o <<e.Operator>> \o Words(e.Right)
      [] e.k = "CallExpression" ->
            Words(e.Function) \o <<"(">> \o WordsOfList(e.Arguments) \o <<")">>
      [] e.k = "IndexExpression" -> Words(e.Left) \o <<"[">> \o Words(e.Index) \o <<"]">>
      [] OTHER -> <<"?">>

WordsOfList(list) ==
    IF list = <<>> THEN <<>>
    ELSE IF Len(list) = 1 THEN Words(list[1])
    ELSE Words(list[1]) \o <<",">> \o WordsOfList(Tail(list))

\* in a tree read off a text without parentheses: the operand of a binary
\* operator is an operation of a higher level, or on the left one of the same
\* level; the operand of a prefix operator is no binary operation; what is
\* called or indexed is no prefix and no binary operation
RECURSIVE Grouped(_)
Grouped(e) ==
    CASE e.k = "InfixExpression" ->
            /\ e.Left.k = "InfixExpression" =>
                 BindingLevel[e.Left.Operator] >= BindingLevel[e.Operator]
            /\ e.Right.k = "InfixExpression" =>
                 BindingLevel[e.Right.Operator] > BindingLevel[e.Operator]
            /\ Grouped(e.Left)
            /\ Grouped(e.Right)
      [] e.k = "PrefixExpression" ->
            /\ e.Right.k # "InfixExpression"
            /\ Grouped(e.Right)
      [] e.k = "CallExpression" ->
            /\ e.Function.k \notin {"PrefixExpression", "InfixExpression"}
            /\ Grouped(e.Function)
            /\ \A i \in 1..Len(e.Arguments) : Grouped(e.Arguments[i])
      [] e.k = "IndexExpression" ->
            /\ e.Left.k \notin {"PrefixExpression", "InfixExpression"}
            /\ Grouped(e.Left)
            /\ Grouped(e.Index)
      [] OTHER -> TRUE

\* the text was one expression, and this is its tree
OneExpression ==
    /\ errors = <<>>
    /\ Len(parsed.Statements) = 1
    /\ parsed.Statements[1].k = "ExpressionStatement"
    /\ Words(parsed.Statements[1].Expression) = source.words

\* C15: of an expression built from operands, prefix operators, binary
\* operators, calls and index operations the parser makes the tree in which
\* an operator of a higher precedence level groups tighter than one of a
\* lower level, operators of the same level group to the left, and a prefix
\* operator binds tighter than every binary operator and looser than call
\* and index.
C15_PrecedenceAndAssociativity ==
    source.form = "expression" =>
        /\ OneExpression
        /\ Grouped(parsed.Statements[1].Expression)

\* -a[0] * b - c was parsed: the index under the prefix operator, that under
\* the product, the product on the left of the difference
C15_Witness ==
    /\ source.form = "expression"
    /\ source.words = <<"-", "a", "[", "0", "]", "*", "b", "-", "c">>
    /\ parsed.Statements[1].Expression.k = "InfixExpression"
    /\ parsed.Statements[1].Expression.Left.k = "InfixExpression"
    /\ parsed.Statements[1].Expression.Left.Left.k = "PrefixExpression"
    /\ parsed.Statements[1].Expression.Left.Left.Right.k = "IndexExpression"

(***************************************************************************)
(* Missing tokens                                                          *)
(***************************************************************************)
\* the calls of expectPeek that did not find the token they expected
FailedExpects == {i \in 1..Len(steps) : steps[i].e = "expectPeek" /\ ~steps[i].ok}

\* such a call recorded one diagnostic, which names the token, and left the
\* window where it was; its caller returned nil right after it
OneDiagnosticNoToken(i) ==
    /\ steps[i].errors1 = steps[i].errors0 + 1
    /\ errors[steps[i].errors1][1] = "expected next token to be %s, got %s instead"
    /\ errors[steps[i].errors1][2] = steps[i].t
    /\ steps[i].curr1 = steps[i].curr0
    /\ steps[i].peek1 = steps[i].peek0
    /\ i < Len(steps)
    /\ steps[i + 1].e = "return"
    /\ steps[i + 1].absent

\* the statement that ends the text, as the Program has it
LastParsed == parsed.Statements[Len(parsed.Statements)]

\* the well-formed statement that ends the text
LastWritten == StatementOf(SubSeq(source.words, source.first + 1, Len(source.words)))

\* C16: a call of expectPeek that misses its token records exactly one
\* diagnostic and consumes no token, and the construct that made the call
\* yields an absent node; ParseProgram goes on with the tokens that follow: of
\* two malformed statements each gets a diagnostic, and a well-formed
\* statement after a malformed one is parsed into the Program.
C16_MissingTokenIsReportedAndSkipped ==
    /\ \A i \in FailedExpects : OneDiagnosticNoToken(i)
    /\ source.form = "malformed, malformed" =>
         /\ \E i \in FailedExpects : steps[i].peek0 <= source.first
         /\ \E i \in FailedExpects : steps[i].peek0 > source.first
    /\ source.form = "malformed, well-formed" =>
         /\ \E i \in FailedExpects : steps[i].peek0 <= source.first
         /\ parsed.Statements # <<>>
         /\ LastParsed.k = LastWritten.k
         /\ LastParsed = LastWritten

\* let x 5; let y = 1; was parsed: the = was missed, and the second let
\* statement is in the Program
C16_Witness ==
    /\ source.form = "malformed, well-formed"
    /\ source.words = <<"let", "x", "5", ";", "let", "y", "=", "1", ";">>
    /\ \E i \in FailedExpects : steps[i].t = "ASSIGN"
    /\ LastParsed = LetStatement("y", IntegerLiteral(1))

(***************************************************************************)
(* The range form and the hash form                                        *)
(***************************************************************************)
\* C17: the parser accepts the range form expr:expr and makes a
\* RangeExpression of it, and the hash form {expr:expr, ...} and makes a
\* HashLiteral of it, and records no diagnostic.
C17_RangeAndHashAreParsed ==
    /\ source.form = "range" =>
         /\ errors = <<>>
         /\ "RangeExpression" \in Kinds(parsed)
    /\ source.form = "hash" =>
         /\ errors = <<>>
         /\ "HashLiteral" \in Kinds(parsed)

(***************************************************************************)
(* Integer literals                                                        *)
(***************************************************************************)
\* the decimal value of a literal of digits: its digits without the leading
\* zeros, the least significant first
RECURSIVE Reversed(_)
Reversed(s) == IF s = <<>> THEN <<>> ELSE Reversed(Tail(s)) \o <<Head(s)>>

RECURSIVE WithoutLeadingZeros(_)
WithoutLeadingZeros(s) ==
    IF s # <<>> /\ Head(s) = 0 THEN WithoutLeadingZeros(Tail(s)) ELSE s

DecimalValue(literal) == Reversed(WithoutLeadingZeros(Digits(literal)))

\* 2^63 - 1 is the largest signed 64-bit integer
FitsInt64(n) == Less(n, <<8, 0, 8, 5, 7, 7, 4, 5, 8, 6, 3, 0, 2, 7, 3, 3, 2, 2, 9>>)

\* C18: of an integer literal of decimal digits whose decimal value fits in a
\* signed 64-bit integer parseIntegerLiteral makes an IntegerLiteral with
\* exactly that value and records no diagnostic; for a literal that does not
\* fit it records a diagnostic and yields no node.
C18_IntegerLiteralsAreDecimal ==
    source.form = "integer" =>
        LET value == DecimalValue(source.words[1])
        IN  IF FitsInt64(value)
            THEN /\ errors = <<>>
                 /\ Len(parsed.Statements) = 1
                 /\ parsed.Statements[1].k = "ExpressionStatement"
                 /\ parsed.Statements[1].Expression.k = "IntegerLiteral"
                 /\ parsed.Statements[1].Expression.Value = Int64(value)
            ELSE /\ Len(errors) = 1
                 /\ errors[1][1] = "could not parse %q as integer"
                 /\ \A i \in 1..Len(parsed.Statements) : parsed.Statements[i].k = "nil"

(***************************************************************************)
(* Termination of the Parser                                               *)
(***************************************************************************)
\* the iterations of the loops of the Parser, in the order they ended
Iterations == {i \in 1..Len(steps) : steps[i].e = "iteration"}

\* the iterations of the loop of ParseProgram
ProgramIterations == {i \in Iterations : steps[i].fn = "ParseProgram"}

\* the iteration began at a token of the text, not at the EOF after it, and
\* the current token was a later one when it ended
Consumed(i) ==
    /\ steps[i].t # "EOF"
    /\ steps[i].curr0 <= Len(source.words)
    /\ steps[i].curr1 > steps[i].curr0

\* C21: ParseProgram returns on every text, well-formed or not: every
\* iteration of the loops of ParseProgram, parseBlockStatement,
\* parseExpression, parseExpressionList and parseFunctionParams begins at a
\* token that is not EOF and consumes at least one token, no loop runs two
\* iterations from the same token, and ParseProgram ends with EOF as its
\* current token, also when a block or a call was left unclosed.
C21_ParserTerminates ==
    source # NoSource =>
        /\ parsed.k = "Program"
        /\ \A i \in Iterations : Consumed(i)
        /\ \A i, j \in Iterations :
              (steps[i].fn = steps[j].fn /\ steps[i].curr0 = steps[j].curr0) => i = j
        /\ \A i \in ProgramIterations :
              (\A j \in ProgramIterations : j <= i) => steps[i].curr1 > Len(source.words)
        /\ ProgramIterations = {} => source.words = <<>>

\* if (x < 1) { x was parsed: the block was left unclosed, its loop ran once
\* and ended at the end of the text, and so did the loop of ParseProgram
C21_Witness ==
    /\ source.form = "truncated"
    /\ source.words = <<"if", "(", "x", "<", "1", ")", "{", "x">>
    /\ \E i \in Iterations :
          /\ steps[i].fn = "parseBlockStatement"
          /\ steps[i].curr0 = 8
          /\ steps[i].curr1 = 9
    /\ \E i \in ProgramIterations : steps[i].curr0 = 1 /\ steps[i].curr1 > 8
    /\ parsed.Statements[1].Expression.k = "IfExpression"

(***************************************************************************)
(* Diagnostics and the completeness of the Program                         *)
(***************************************************************************)
\* no node of the tree of node lacks a child it needs: no statement of a
\* Program or a block is a nil pointer, and no let value, return value,
\* operand, callee, argument, element, index, condition, consequence or body
\* is nil (the else block of an if may be)
RECURSIVE Complete(_)
Complete(node) ==
    \A i \in 1..Len(Children(node)) :
        /\ Children(node)[i].k # "nil"
        /\ Complete(Children(node)[i])

\* the returns of nil: of a node by a parsing function, of a nil slice by
\* parseExpressionList or parseFunctionParams
AbsentYields == {i \in 1..Len(steps) : steps[i].e = "return" /\ steps[i].absent}

\* parseFunctionParams found the ) right after the ( and returned its
\* parameter list as it declared it, a nil slice
EmptyParameters(i) ==
    /\ steps[i].fn = "parseFunctionParams"
    /\ steps[i].curr0 >= 2
    /\ steps[i].curr0 <= Len(source.words)
    /\ source.words[steps[i].curr0] = ")"
    /\ source.words[steps[i].curr0 - 1] = "("

\* C22, as the specification has it: whenever ParseProgram returns with no
\* diagnostic the Program is complete, no statement and no node below it
\* lacking a required child, the parameter list of a function included; that
\* is, whenever a parsing function returned nil, a node or a list, at least
\* one diagnostic had been recorded.
C22_CompleteWithoutDiagnostics ==
    /\ (source # NoSource /\ errors = <<>>) => Complete(parsed)
    /\ \A i \in AbsentYields : steps[i].errors0 >= 1

\* C22, amended: whenever ParseProgram returns with no diagnostic, no
\* statement of the Program and no node below it lacks a required child;
\* whenever a parsing function returned nil, at least one diagnostic had been
\* recorded, except that the parameter list of a function written with no
\* parameters is a nil slice, which stands for the empty list.
C22_CompleteButForEmptyParameters ==
    /\ (source # NoSource /\ errors = <<>>) => Complete(parsed)
    /\ \A i \in AbsentYields : steps[i].errors0 >= 1 \/ EmptyParameters(i)

\* fn() { } was parsed without a diagnostic: the Program holds the function,
\* and parseFunctionParams returned a nil slice
C22_Witness ==
    /\ source.words = <<"fn", "(", ")", "{", "}">>
    /\ errors = <<>>
    /\ Len(parsed.Statements) = 1
    /\ parsed.Statements[1].Expression.k = "FunctionLiteral"
    /\ Complete(parsed)
    /\ \E i \in AbsentYields : EmptyParameters(i) /\ steps[i].errors0 = 0

====
